---- MODULE Spec2Model ----
(***************************************************************************)
(* A model of the acquisition pipeline of DataEngine:                      *)
(*   - download_url / stream_url / validate_file   (DataCollection/utils)  *)
(*   - extract_archive / get_the_directory         (DataCollection/utils)  *)
(*   - the sequential batch loops of the formatters and downloaders        *)
(*   - async_download_urls                         (DataCollection/utils)  *)
(* Each part has its own specification over the same variables; the parts  *)
(* a specification does not run stay at their initial values.              *)
(***************************************************************************)
EXTENDS Integers, Sequences, FiniteSets, TLC

(***************************************************************************)
(* Bounds of the model.                                                    *)
(***************************************************************************)
\* longest remote object and longest pre-existing local file, in bytes
MaxBytes == 2
\* stream_url's block_size, scaled down to the model's byte counts
BlockSize == 1

Byte == {0, 1}

\* Optional[T]: None is the empty tuple, a value v is <<v>>
None == <<>>
Some(v) == <<v>>
IsNone(o) == o = <<>>

SeqsUpTo(S, n) == UNION {[1..k -> S] : k \in 0..n}

Min(a, b) == IF a < b THEN a ELSE b

Range(f) == {f[i] : i \in DOMAIN f}

(***************************************************************************)
(* State.                                                                  *)
(***************************************************************************)
VARIABLES
    \* ---- download_url -------------------------------------------------
    remote,        \* the bytes the server holds for url
    hasLength,     \* whether the server's headers carry Content-Length
    resume,        \* download_url's argument resume
    hash_value,    \* download_url's argument hash_value (Optional)
    hash_type,     \* download_url's argument hash_type
    file,          \* the file at filepath: [exists, data]
    file0,         \* the file at filepath when download_url was called
    mode,          \* the local mode: "ab", "wb" (None before it is set)
    local_size,    \* the local local_size (Optional[int])
    dpc,           \* position in download_url / stream_url
    upointer,      \* the bytes of the response body not read yet
    requests,      \* the body (GET) requests issued: sequence of Range starts
    writes,        \* number of fpointer.write calls
    dresult,       \* how download_url ended: "", "returned", or the error
    \* ---- extract_archive ------------------------------------------------
    to_path_arg,   \* the argument to_path (Optional)
    overwrite,     \* the argument overwrite
    tar,           \* the archive as the tar reader sees it
    zip,           \* the archive as the zip reader sees it
    fs,            \* the tree under to_path
    fs0,           \* the tree when extract_archive was first called
    epc,           \* position in extract_archive
    idx,           \* position of the loop in the member list
    files,         \* the local files
    eresult,       \* <<>> while running, then <<"returned", v>> or <<error>>
    tarWrites,     \* entries written by the tar branch in this call
    zipWrites,     \* entries written by the zip branch in this call
    run,           \* 1 in the first call, 2 in the repeated call
    fs1,           \* the tree after the first call
    eresult1,      \* the result of the first call
    link_target,   \* name -> the file a symlink member of that name points to
    link_target1,  \* link_target when the first call ended
    \* ---- batch acquisition ---------------------------------------------
    url_dict,      \* the URL map, in insertion order: what befalls each entry
    variant,       \* which sequential loop runs
    spc,           \* position in the sequential loop
    si,            \* the entry the loop is at
    slog,          \* the fetches and extractions made, in order
    sresult,       \* <<>> while running, then <<"returned", v>> or <<error>>
    cpu_count,     \* multiprocessing.cpu_count(): the size of the pool
    apc,           \* position of the caller in async_download_urls
    ai,            \* the entry the submit loop is at
    task,          \* the state of each submitted unit
    progress_list, \* the shared list the units append to
    \* ---- match_textfiles_list ------------------------------------------
    audio_files,   \* the audio paths, in input order
    text_files,    \* the transcript paths, in input order
    disk,          \* the content of each transcript file
    files_map,     \* the dict, as the sequence of its items in insertion order
    mpc,           \* position in match_textfiles_list
    mi,            \* the index the current loop is at
    matched_files, \* the list returned
    \* ---- LibriTts._preprocess, create_dataset_information ---------------
    samples,       \* matched_samples / speaker_samples: the rows, changed in place
    speakers_df,   \* the rows of speakers.tsv
    corrupt,       \* the audio paths AudioSegment.from_file cannot read
    snr_raises,    \* the audio paths for which wada_snr raises
    lpc,           \* position in _preprocess and create_dataset_information
    li,            \* the row the current loop is at
    tables,        \* the four metadata tables under self.path, None if absent
    df_dict,       \* get_audio_lengths: the rows read from metadata.csv
    card,          \* dataset_card.md, None if absent
    lresult,       \* <<>> while running, then <<"returned", v>> or <<error>>
    \* ---- LjSpeech._preprocess, Mailabs._preprocess, run twice -----------
    formatter,     \* the class whose _preprocess runs
    book_csv,      \* Mailabs: the lines of the metadata.csv of a book, None if absent
    root_csv,      \* the lines of self.path/metadata.csv, None if absent
    jrows,         \* df_dict / all_metadata: the rows
    jpc,           \* position in _preprocess
    jrun,          \* 1 in the first run, 2 in the second
    jcard,         \* dataset_card.md, None if absent
    jresult,       \* <<>> while running, then <<"returned", v>> or <<error>>
    jfirst,        \* the files and the result at the end of the first run
    \* ---- get_timestamp_from_milliseconds -----------------------------------
    ts_in,         \* the argument of get_timestamp_from_milliseconds
    milliseconds,  \* the local of that name, reduced step by step
    hours,         \* the local hours
    minutes,       \* the local minutes
    seconds,       \* the local seconds
    tpc,           \* position in the function
    timestamp,     \* the string returned, <<>> before
    \* ---- downloaders.download_and_extract ----------------------------------
    url,           \* the argument url of download_and_extract
    out_path,      \* the argument out_path
    served_filename, \* req_info.get_filename(), None without Content-Disposition
    payload,       \* the archive the server holds for url
    folder,        \* the files of out_path, path -> Optional archive
    unpacked,      \* the paths extract_archive has written
    fpc,           \* position in download_and_extract
    filepath,      \* the local filepath of download_url (Optional)
    archive,       \* the local archive of download_and_extract (Optional)
    call,          \* 1 in the first call, 2 in the repeated call
    fresult,       \* how the call ended, <<>> while it runs
    fresult1,      \* how the first call ended
    \* ---- LibriTts.__init__ and Mailabs.__init__ ----------------------------
    cls,           \* the formatter class, LibriTts or Mailabs
    path_arg,      \* the argument path (Optional)
    download,      \* the argument download
    selection,     \* the argument subset or language: all or one of the keys
    async_download, \* the argument async_download
    user_home,     \* the home directory that expanduser finds
    top_member,    \* the first file of every archive, relative to out_path
    self_path,     \* self.path (Optional)
    extracted,     \* the files the download step has extracted
    kpc,           \* position in __init__
    preprocess_path, \* <<>> until _preprocess is called, then <<self.path>>
    kresult,       \* how __init__ ended so far
    \* ---- search_for_text_files ---------------------------------------------
    audio_samples, \* the argument audio_samples: a list of dicts, changed in place
    walk,          \* what os.walk(root_data_path) yields, file by file: [subdir, file]
    si_sample,     \* the index i of the sample at hand, from 1
    walk_idx,      \* the index of the file at hand in walk
    matched_samples, \* the list of line 30: references, as indices into audio_samples
    rpc,           \* position in search_for_text_files
    text_file_extension, \* the argument text_file_extension
    read_text_file, \* the argument read_text_file
    returned_samples, \* the dicts returned, as a set (the list has the order of a set)
    \* ---- Tedlium._preprocess -----------------------------------------------
    text_pairs,    \* the recordings with a transcript: [stamps, raises_at]
    ted_snr_raises, \* the segments for which wada_snr raises
    snr_idx,       \* the index of the loop of lines 342-343
    all_samples,   \* per recording what its worker returned, <<>> before
    collect_idx,   \* the index of the loop of lines 337-339
    total_samples, \* the list total_samples
    metadata_csv,  \* the table written at line 346, None before
    ted_pc,        \* position in Tedlium._preprocess
    ted_result     \* how _preprocess ended so far

exVars == <<to_path_arg, overwrite, tar, zip, fs, fs0, epc, idx, files, eresult,
            tarWrites, zipWrites, run, fs1, eresult1, link_target,
            link_target1>>

dlVars == <<remote, hasLength, resume, hash_value, hash_type, file, file0,
            mode, local_size, dpc, upointer, requests, writes, dresult>>

sqVars == <<variant, spc, si, slog, sresult>>

asVars == <<cpu_count, apc, ai, task, progress_list>>

mtVars == <<audio_files, text_files, disk, files_map, mpc, mi, matched_files>>

ltVars == <<samples, speakers_df, corrupt, snr_raises, lpc, li, tables, df_dict, card, lresult>>

ljVars == <<formatter, book_csv, root_csv, jrows, jpc, jrun, jcard, jresult, jfirst>>

tsVars == <<ts_in, milliseconds, hours, minutes, seconds, tpc, timestamp>>

feVars == <<url, out_path, served_filename, payload, folder, unpacked, fpc, filepath, archive, call, fresult, fresult1>>


fmVars == <<cls, path_arg, download, selection, async_download, user_home, top_member, self_path, extracted, kpc, preprocess_path, kresult>>

srVars == <<audio_samples, walk, text_file_extension, read_text_file, si_sample, walk_idx, matched_samples, rpc, returned_samples>>

tdVars == <<text_pairs, ted_snr_raises, snr_idx, all_samples, collect_idx, total_samples, metadata_csv, ted_pc, ted_result>>

vars == <<dlVars, exVars, url_dict, sqVars, asVars, mtVars, ltVars, ljVars, tsVars, feVars, fmVars, srVars, tdVars>>

\* what the actions of one part leave alone
dlOthers == <<exVars, url_dict, sqVars, asVars, mtVars, ltVars, ljVars, tsVars, feVars, fmVars, srVars, tdVars>>
exOthers == <<dlVars, url_dict, sqVars, asVars, mtVars, ltVars, ljVars, tsVars, feVars, fmVars, srVars, tdVars>>
sqOthers == <<dlVars, exVars, asVars, mtVars, ltVars, ljVars, tsVars, feVars, fmVars, srVars, tdVars>>
asOthers == <<dlVars, exVars, sqVars, mtVars, ltVars, ljVars, tsVars, feVars, fmVars, srVars, tdVars>>
mtOthers == <<dlVars, exVars, url_dict, sqVars, asVars, ltVars, ljVars, tsVars, feVars, fmVars, srVars, tdVars>>
ltOthers == <<dlVars, exVars, url_dict, sqVars, asVars, mtVars, ljVars, tsVars, feVars, fmVars, srVars, tdVars>>
ljOthers == <<dlVars, exVars, url_dict, sqVars, asVars, mtVars, ltVars, tsVars, feVars, fmVars, srVars, tdVars>>
tsOthers == <<dlVars, exVars, url_dict, sqVars, asVars, mtVars, ltVars, ljVars, feVars, fmVars, srVars, tdVars>>
feOthers == <<dlVars, exVars, url_dict, sqVars, asVars, mtVars, ltVars, ljVars, tsVars, fmVars, srVars, tdVars>>
fmOthers == <<dlVars, exVars, url_dict, sqVars, asVars, mtVars, ltVars, ljVars, tsVars, feVars, srVars, tdVars>>
srOthers == <<dlVars, exVars, url_dict, sqVars, asVars, mtVars, ltVars, ljVars, tsVars, feVars, fmVars, tdVars>>
tdOthers == <<dlVars, exVars, url_dict, sqVars, asVars, mtVars, ltVars, ljVars, tsVars, feVars, fmVars, srVars>>


(***************************************************************************)
(* validate_file: the digest of the whole file, fed chunk by chunk to the  *)
(* hash object, compared with hash_value.  The two digests are modelled as *)
(* two different collision-free encodings of the content.                  *)
(***************************************************************************)
RECURSIVE HashUpdate(_, _, _)
HashUpdate(kind, h, data) ==
    IF data = <<>> THEN h
    ELSE HashUpdate(kind,
                    IF kind = "sha256" THEN 3 * h + Head(data) + 1
                                       ELSE 3 * h + 2 - Head(data),
                    Tail(data))

hexdigest(kind, data) ==
    HashUpdate(kind, IF kind = "sha256" THEN 1 ELSE 2, data)

HashTypes == {"sha256", "md5", "other"}

\* validate_file raises ValueError for any other hash_type
ValidateRaises(kind) == kind \notin {"sha256", "md5"}

\* mutant: the comparison of the digests is inverted
validate_file_inverted(data, hv, kind) == hexdigest(kind, data) # hv

validate_file(data, hv, kind) == hexdigest(kind, data) = hv

(***************************************************************************)
(* The server.  Content-Length is the size of the object when the header   *)
(* is sent, and the code reads -1 when it is absent.  A GET with           *)
(* "Range: bytes=n-" is answered with the bytes from offset n on, and with *)
(* 416 (urlopen raises HTTPError) when n is not inside the object.         *)
(***************************************************************************)
ContentLength == IF hasLength THEN Len(remote) ELSE -1

RangeSatisfiable(start) == start < Len(remote)

Body(start) == SubSeq(remote, start + 1, Len(remote))

(***************************************************************************)
(* download_url                                                            *)
(***************************************************************************)
Contents == SeqsUpTo(Byte, MaxBytes)

Absent == [exists |-> FALSE, data |-> <<>>]
FileOf(d) == [exists |-> TRUE, data |-> d]

HashArgs == {None} \cup {Some(hexdigest(k, d)) : k \in {"sha256", "md5"}, d \in Contents}

DlInit ==
    /\ remote \in Contents
    /\ hasLength \in BOOLEAN
    /\ resume \in BOOLEAN
    /\ hash_value \in HashArgs
    /\ hash_type \in HashTypes
    /\ file \in {Absent} \cup {FileOf(d) : d \in Contents}
    /\ file0 = file
    /\ mode = None
    /\ local_size = None
    /\ dpc = "head"
    /\ upointer = <<>>
    /\ requests = <<>>
    /\ writes = 0
    /\ dresult = ""

\* raise: the exception leaves download_url; an open file is closed as is
Raise(err) ==
    /\ dpc' = "done"
    /\ dresult' = err

\* lines 100-101: the metadata-only request
DownloadHead ==
    /\ dpc = "head"
    /\ dpc' = "detect"
    /\ UNCHANGED <<remote, hasLength, resume, hash_value, hash_type, file, file0,
                   mode, local_size, upointer, requests, writes, dresult>>
    /\ UNCHANGED dlOthers

\* mutant: an existing file is overwritten when resume is off
SelectModeOverwrites ==
    /\ dpc = "detect"
    /\ IF resume /\ file.exists
       THEN /\ mode' = Some("ab")
            /\ local_size' = Some(Len(file.data))
       ELSE /\ mode' = Some("wb")
            /\ local_size' = None
    /\ dpc' = "check"
    /\ UNCHANGED <<remote, hasLength, resume, hash_value, hash_type, file, file0,
                   upointer, requests, writes, dresult>>
    /\ UNCHANGED dlOthers

\* lines 104-114: filepath, mode and local_size
SelectMode ==
    /\ dpc = "detect"
    /\ IF resume /\ file.exists
       THEN /\ mode' = Some("ab")
            /\ local_size' = Some(Len(file.data))
            /\ dpc' = "check"
            /\ UNCHANGED dresult
       ELSE IF ~resume /\ file.exists
       THEN /\ Raise("AlreadyExists")
            /\ UNCHANGED <<mode, local_size>>
       ELSE /\ mode' = Some("wb")
            /\ local_size' = None
            /\ dpc' = "check"
            /\ UNCHANGED dresult
    /\ UNCHANGED <<remote, hasLength, resume, hash_value, hash_type, file, file0,
                   upointer, requests, writes>>
    /\ UNCHANGED dlOthers

\* lines 116-120: a local file of the remote size is validated, not fetched
CheckComplete ==
    /\ dpc = "check"
    /\ IF ~IsNone(hash_value) /\ local_size = Some(ContentLength)
       THEN IF ValidateRaises(hash_type)
            THEN Raise("ValueError")
            ELSE IF validate_file(file.data, hash_value[1], hash_type)
                 THEN Raise("returned")
                 ELSE Raise("HashMismatch")
       ELSE /\ dpc' = "open"
            /\ UNCHANGED dresult
    /\ UNCHANGED <<remote, hasLength, resume, hash_value, hash_type, file, file0,
                   mode, local_size, upointer, requests, writes>>
    /\ UNCHANGED dlOthers

\* line 122: open(filepath, mode); "wb" creates or truncates, "ab" keeps
OpenFile ==
    /\ dpc = "open"
    /\ file' = IF mode = Some("wb") THEN FileOf(<<>>) ELSE FileOf(file.data)
    /\ dpc' = "stream_head"
    /\ UNCHANGED <<remote, hasLength, resume, hash_value, hash_type, file0,
                   mode, local_size, upointer, requests, writes, dresult>>
    /\ UNCHANGED dlOthers

\* stream_url lines 51-55: nothing is requested when url_size == start_byte
StreamHead ==
    /\ dpc = "stream_head"
    /\ dpc' = IF Some(ContentLength) = local_size THEN "verify" ELSE "request"
    /\ UNCHANGED <<remote, hasLength, resume, hash_value, hash_type, file, file0,
                   mode, local_size, upointer, requests, writes, dresult>>
    /\ UNCHANGED dlOthers

\* "if start_byte:" is false for None and for 0
Truthy(o) == ~IsNone(o) /\ o[1] # 0

\* mutant: the Range header is never set
StreamRequestNoRange ==
    /\ dpc = "request"
    /\ requests' = Append(requests, None)
    /\ upointer' = Body(0)
    /\ dpc' = "read"
    /\ UNCHANGED <<remote, hasLength, resume, hash_value, hash_type, file, file0,
                   mode, local_size, writes, dresult>>
    /\ UNCHANGED dlOthers

\* stream_url lines 57-61: the body request, with a Range header if start_byte
StreamRequest ==
    /\ dpc = "request"
    /\ IF Truthy(local_size)
       THEN /\ requests' = Append(requests, Some(local_size[1]))
            /\ IF RangeSatisfiable(local_size[1])
               THEN /\ upointer' = Body(local_size[1])
                    /\ dpc' = "read"
                    /\ UNCHANGED dresult
               ELSE /\ Raise("HTTPError")
                    /\ UNCHANGED upointer
       ELSE /\ requests' = Append(requests, None)
            /\ upointer' = Body(0)
            /\ dpc' = "read"
            /\ UNCHANGED dresult
    /\ UNCHANGED <<remote, hasLength, resume, hash_value, hash_type, file, file0,
                   mode, local_size, writes>>
    /\ UNCHANGED dlOthers

\* stream_url lines 69-75 and download_url line 124: one chunk read and written
StreamRead ==
    /\ dpc = "read"
    /\ LET n == Min(BlockSize, Len(upointer))
           chunk == SubSeq(upointer, 1, n)
       IN IF chunk = <<>>
          THEN /\ dpc' = "verify"
               /\ UNCHANGED <<file, upointer, writes>>
          ELSE /\ file' = FileOf(file.data \o chunk)
               /\ upointer' = SubSeq(upointer, n + 1, Len(upointer))
               /\ writes' = writes + 1
               /\ UNCHANGED dpc
    /\ UNCHANGED <<remote, hasLength, resume, hash_value, hash_type, file0,
                   mode, local_size, requests, dresult>>
    /\ UNCHANGED dlOthers

\* mutant: a file that fails the check is removed before raising
VerifyRemoves ==
    /\ dpc = "verify"
    /\ IF IsNone(hash_value)
       THEN Raise("returned") /\ UNCHANGED file
       ELSE IF ValidateRaises(hash_type)
       THEN Raise("ValueError") /\ UNCHANGED file
       ELSE IF validate_file(file.data, hash_value[1], hash_type)
       THEN Raise("returned") /\ UNCHANGED file
       ELSE Raise("HashMismatch") /\ file' = Absent
    /\ UNCHANGED <<remote, hasLength, resume, hash_value, hash_type, file0,
                   mode, local_size, upointer, requests, writes>>
    /\ UNCHANGED dlOthers

\* lines 126-128: the checksum of the file as it is now on disk
Verify ==
    /\ dpc = "verify"
    /\ IF IsNone(hash_value)
       THEN Raise("returned")
       ELSE IF ValidateRaises(hash_type)
       THEN Raise("ValueError")
       ELSE IF validate_file(file.data, hash_value[1], hash_type)
       THEN Raise("returned")
       ELSE Raise("HashMismatch")
    /\ UNCHANGED <<remote, hasLength, resume, hash_value, hash_type, file, file0,
                   mode, local_size, upointer, requests, writes>>
    /\ UNCHANGED dlOthers

DlNext ==
    \/ DownloadHead
    \/ SelectMode
    \/ CheckComplete
    \/ OpenFile
    \/ StreamHead
    \/ StreamRequest
    \/ StreamRead
    \/ Verify


(***************************************************************************)
(* Paths are strings: sequences of characters.  The operators below are    *)
(* the str and os.path functions the code calls.                           *)
(***************************************************************************)
sep == "/"

startswith(s, p) == Len(p) <= Len(s) /\ SubSeq(s, 1, Len(p)) = p

RECURSIVE lstrip(_, _)
lstrip(s, c) == IF s # <<>> /\ Head(s) = c THEN lstrip(Tail(s), c) ELSE s

RECURSIVE rstrip(_, _)
rstrip(s, c) ==
    IF s # <<>> /\ s[Len(s)] = c THEN rstrip(SubSeq(s, 1, Len(s) - 1), c) ELSE s

strip(s, c) == rstrip(lstrip(s, c), c)

\* s.split(c, 1)[0]: the part of s before the first c
RECURSIVE split_first(_, _)
split_first(s, c) ==
    IF s = <<>> \/ Head(s) = c THEN <<>>
    ELSE <<Head(s)>> \o split_first(Tail(s), c)

\* s.rfind(c) + 1: the position after the last c, 0 if there is none
RECURSIVE rfind1(_, _)
rfind1(s, c) ==
    IF s = <<>> THEN 0
    ELSE IF s[Len(s)] = c THEN Len(s)
    ELSE rfind1(SubSeq(s, 1, Len(s) - 1), c)

\* os.path.join(a, b)
path_join(a, b) ==
    IF startswith(b, <<sep>>) THEN b
    ELSE IF a = <<>> \/ a[Len(a)] = sep THEN a \o b
    ELSE a \o <<sep>> \o b

\* os.path.dirname(p)
dirname(p) ==
    LET head == SubSeq(p, 1, rfind1(p, sep))
    IN IF head # <<>> /\ lstrip(head, sep) # <<>> THEN rstrip(head, sep) ELSE head

\* os.path.basename(p)
basename(p) == SubSeq(p, rfind1(p, sep) + 1, Len(p))

(***************************************************************************)
(* get_the_directory: the argument base_path is overwritten by the literal *)
(* of line 29 before it is read.                                           *)
(***************************************************************************)
DataEngineHome == <<"/", "h", "o", "m", "e", "/", "l", "o", "g", "a", "n", "/", ".", "l", "o", "c", "a", "l", "/", "s", "h", "a", "r", "e", "/", "d", "a", "t", "a", "e", "n", "g", "i", "n", "e">>

get_the_directory(base_path, full_path) ==
    LET base == DataEngineHome
    IN IF startswith(full_path, base)
       THEN LET remaining_path == strip(SubSeq(full_path, Len(base) + 1, Len(full_path)), sep)
                first_subdirectory == split_first(remaining_path, sep)
            IN <<"returned", path_join(base, first_subdirectory)>>
       ELSE <<"ValueError">>

(***************************************************************************)
(* extract_archive.                                                        *)
(*                                                                         *)
(* An archive file is described by what the two readers make of it.        *)
(*   tar.open      tarfile.open succeeds (else it raises ReadError)        *)
(*   tar.members   the members the tar reader yields, [name, type]         *)
(*   tar.truncated the file ends inside the data of the last member: the   *)
(*                 reader yields that member, tar.extract creates its file *)
(*                 with the bytes that are there and raises ReadError, and *)
(*                 if the member is skipped the next header read raises it *)
(*   tar.gzip      the truncated file is gzip-compressed: what raises is   *)
(*                 then EOFError, which extract_archive does not catch;    *)
(*                 for a complete file compression changes nothing         *)
(*   zip           None if ZipFile raises BadZipFile, else the namelist    *)
(* A file can be both (zip keeps its directory at the end of the file).    *)
(* The destination tree is fs: relative path -> object, NoObj if nothing   *)
(* is there.  A symlink member points outside the tree, to the file        *)
(* link_target of its name, which may be absent (a dangling link).         *)
(* os.path.exists and open follow the link; tar.extract of a symlink       *)
(* member removes what is at the path and puts the link there.             *)
(***************************************************************************)
\* most members of an archive, for each reader
MaxMembers == 2

Names == {<<"x", "/", "a">>, <<"y">>}

MemberTypes == {"file", "link"}

Members == [name : Names, type : MemberTypes]

NoObj == [kind |-> "none", data |-> <<>>]
OldFile == [kind |-> "file", data |-> <<"old">>]

\* what tar.extract leaves at the member's path
TarObj(m, i) == [kind |-> m.type, data |-> <<"tar", i>>]
TarPartial(m, i) == [kind |-> m.type, data |-> <<"tar", i, "truncated">>]
\* what zfile.extract leaves at the name's path
ZipObj(j) == [kind |-> "file", data |-> <<"zip", j>>]

TarFiles ==
    {t \in [open : BOOLEAN, members : SeqsUpTo(Members, MaxMembers), truncated : BOOLEAN,
            gzip : BOOLEAN] :
        /\ ~t.open => (t.members = <<>> /\ ~t.truncated)
        /\ t.gzip => t.truncated
        /\ t.truncated =>
              (t.members # <<>> /\ t.members[Len(t.members)].type = "file")}

ZipFiles == {None} \cup {Some(l) : l \in SeqsUpTo(Names, MaxMembers)}

\* the archive sits in the default download directory
from_path == path_join(DataEngineHome, <<"a", ".", "t", "a", "r">>)

ToPathArgs == {None, Some(DataEngineHome \o <<"/", "m">>), Some(<<"/", "d">>)}


\* lines 172-173
to_path == IF IsNone(to_path_arg) THEN dirname(from_path) ELSE to_path_arg[1]

\* os.path.exists(os.path.join(to_path, name)): follows a symlink
exists(name) ==
    \/ fs[name].kind = "file"
    \/ fs[name].kind = "link" /\ link_target[name] # NoObj

\* the tree and the link targets after tar.extract or zfile.extract put
\* obj at name: a symlink replaces what is there, a file is written
\* through a symlink that is there
Extracted(name, obj) ==
    IF obj.kind = "file" /\ fs[name].kind = "link"
    THEN [tree |-> fs, targets |-> [link_target EXCEPT ![name] = obj]]
    ELSE [tree |-> [fs EXCEPT ![name] = obj], targets |-> link_target]

ExInit ==
    /\ to_path_arg \in ToPathArgs
    /\ overwrite \in BOOLEAN
    /\ tar \in TarFiles
    /\ zip \in ZipFiles
    \* the zip reader is reached only after a ReadError
    /\ ((tar.open /\ ~tar.truncated) \/ tar.gzip) => zip = None
    /\ fs \in [Names -> {NoObj, OldFile}]
    /\ \E t \in {NoObj, OldFile} : link_target = [n \in Names |-> t]
    /\ link_target1 = link_target
    /\ fs0 = fs
    /\ epc = "tar_open"
    /\ idx = 0
    /\ files = <<>>
    /\ eresult = <<>>
    /\ tarWrites = 0
    /\ zipWrites = 0
    /\ run = 1
    /\ fs1 = fs
    /\ eresult1 = <<>>

\* the parts that stay as they are during one call
ExFrame ==
    UNCHANGED <<to_path_arg, overwrite, tar, zip, fs0, run, fs1, eresult1, link_target1,
                exOthers>>

ExFinish(r) ==
    /\ epc' = "done"
    /\ eresult' = r

\* line 176: tarfile.open(from_path, "r")
TarOpen ==
    /\ epc = "tar_open"
    /\ IF tar.open
       THEN /\ epc' = "tar_member"
            /\ idx' = 1
       ELSE /\ epc' = "zip_open"
            /\ UNCHANGED idx
    /\ files' = <<>>
    /\ UNCHANGED <<fs, link_target, eresult, tarWrites, zipWrites>>
    /\ ExFrame

\* lines 179-188: one turn of "for file_ in tar"
TarMember ==
    /\ epc = "tar_member"
    /\ idx <= Len(tar.members)
    /\ LET file_ == tar.members[idx]
           file_path == path_join(to_path, file_.name)
           last == tar.truncated /\ idx = Len(tar.members)
           skip == file_.type = "file" /\ exists(file_.name) /\ ~overwrite
           after == Extracted(file_.name,
                              IF last THEN TarPartial(file_, idx) ELSE TarObj(file_, idx))
       IN /\ files' = IF file_.type = "file" THEN Append(files, file_path) ELSE files
          /\ IF skip
             THEN /\ idx' = idx + 1
                  /\ UNCHANGED <<fs, link_target, epc, eresult, tarWrites>>
             ELSE /\ fs' = after.tree
                  /\ link_target' = after.targets
                  /\ tarWrites' = tarWrites + 1
                  /\ IF last /\ tar.gzip
                     THEN \* tar.extract raises EOFError, which propagates
                          /\ ExFinish(<<"EOFError">>)
                          /\ UNCHANGED idx
                     ELSE IF last
                     THEN \* tar.extract raises ReadError: on to the zip reader
                          /\ epc' = "zip_open"
                          /\ UNCHANGED <<idx, eresult>>
                     ELSE /\ idx' = idx + 1
                          /\ UNCHANGED <<epc, eresult>>
    /\ UNCHANGED zipWrites
    /\ ExFrame

\* the loop ends: the next header read raises on a truncated file whose
\* last member was skipped (ReadError, or EOFError from the gzip reader),
\* else line 189 returns
TarEnd ==
    /\ epc = "tar_member"
    /\ idx > Len(tar.members)
    /\ IF tar.truncated /\ tar.gzip
       THEN ExFinish(<<"EOFError">>)
       ELSE IF tar.truncated
       THEN /\ epc' = "zip_open"
            /\ UNCHANGED eresult
       ELSE IF files = <<>>
       THEN ExFinish(<<"IndexError">>)
       ELSE ExFinish(get_the_directory(to_path, files[1]))
    /\ UNCHANGED <<fs, link_target, idx, files, tarWrites, zipWrites>>
    /\ ExFrame

\* lines 194-196: zipfile.ZipFile(from_path, "r") and namelist()
ZipOpen ==
    /\ epc = "zip_open"
    /\ IF IsNone(zip)
       THEN /\ epc' = "unsupported"
            /\ UNCHANGED <<files, idx>>
       ELSE /\ epc' = "zip_member"
            /\ files' = zip[1]
            /\ idx' = 1
    /\ UNCHANGED <<fs, link_target, eresult, tarWrites, zipWrites>>
    /\ ExFrame

\* zfile.getinfo(name): of several entries with one name the directory of
\* the zip reader keeps the last
LastNamed(l, name) ==
    CHOOSE i \in DOMAIN l : l[i] = name /\ \A j \in DOMAIN l : l[j] = name => j <= i

\* lines 197-203: one turn of "for file_ in files"; zfile.extract is given
\* the name, not the entry
ZipMember ==
    /\ epc = "zip_member"
    /\ idx <= Len(files)
    /\ LET file_ == files[idx]
           after == Extracted(file_, ZipObj(LastNamed(files, file_)))
       IN IF exists(file_) /\ ~overwrite
          THEN UNCHANGED <<fs, link_target, zipWrites>>
          ELSE /\ fs' = after.tree
               /\ link_target' = after.targets
               /\ zipWrites' = zipWrites + 1
    /\ idx' = idx + 1
    /\ UNCHANGED <<epc, files, eresult, tarWrites>>
    /\ ExFrame

\* line 204: the namelist entry itself is passed as full_path
ZipEnd ==
    /\ epc = "zip_member"
    /\ idx > Len(files)
    /\ IF files = <<>>
       THEN ExFinish(<<"IndexError">>)
       ELSE ExFinish(get_the_directory(to_path, files[1]))
    /\ UNCHANGED <<fs, link_target, idx, files, tarWrites, zipWrites>>
    /\ ExFrame

\* line 208
Unsupported ==
    /\ epc = "unsupported"
    /\ ExFinish(<<"NotImplementedError">>)
    /\ UNCHANGED <<fs, link_target, idx, files, tarWrites, zipWrites>>
    /\ ExFrame

\* the caller calls extract_archive again with the same arguments
ExtractAgain ==
    /\ epc = "done"
    /\ run = 1
    /\ run' = 2
    /\ fs1' = fs
    /\ eresult1' = eresult
    /\ link_target1' = link_target
    /\ epc' = "tar_open"
    /\ idx' = 0
    /\ files' = <<>>
    /\ eresult' = <<>>
    /\ tarWrites' = 0
    /\ zipWrites' = 0
    /\ UNCHANGED <<to_path_arg, overwrite, tar, zip, fs, fs0, link_target, exOthers>>

ExNext ==
    \/ TarOpen
    \/ TarMember
    \/ TarEnd
    \/ ZipOpen
    \/ ZipMember
    \/ ZipEnd
    \/ Unsupported
    \/ ExtractAgain


(***************************************************************************)
(* Claims about extract_archive, checked under SpecExtract.                *)
(***************************************************************************)
ExDone == epc = "done"

InZipBranch == epc \in {"zip_open", "zip_member", "unsupported"}

\* a complete tar file with at least one regular file in it
WholeTar ==
    /\ tar.open
    /\ ~tar.truncated
    /\ \E i \in 1..Len(tar.members) : tar.members[i].type = "file"

\* a complete zip file (and no tar file) with at least one entry
WholeZip == ~tar.open /\ ~IsNone(zip) /\ zip[1] # <<>>

\* the archive-relative path of the first file extract_archive lists
FirstFileName ==
    IF tar.open
    THEN tar.members[CHOOSE i \in 1..Len(tar.members) :
                        /\ tar.members[i].type = "file"
                        /\ \A j \in 1..(i - 1) : tar.members[j].type # "file"].name
    ELSE zip[1][1]

\* C5: the zip reader is tried only if opening the file as tar raised the
\* format error, the zip branch writes no entry after the tar branch wrote
\* one, and the unsupported-archive error is raised with no file written.
C5_Original ==
    /\ InZipBranch => ~tar.open
    /\ zipWrites > 0 => tarWrites = 0
    /\ eresult = <<"NotImplementedError">> => (tarWrites = 0 /\ zipWrites = 0 /\ fs = fs1)

\* the failing case of C5: the error is raised after the tar branch wrote
C5_Reached ==
    /\ run = 1
    /\ eresult = <<"NotImplementedError">>
    /\ tar.open
    /\ tarWrites = Len(tar.members)
    /\ tarWrites > 1
    /\ fs # fs0

\* C6: in both branches, an entry whose path exists under the destination
\* is left untouched when overwrite is False, and every other entry is
\* written over whatever is there (complete archives).
C6_Original ==
    [][/\ (epc = "tar_member" /\ idx <= Len(tar.members) /\ ~tar.truncated) =>
            LET file_ == tar.members[idx]
            IN IF exists(file_.name) /\ ~overwrite
               THEN fs' = fs
               ELSE fs' = [fs EXCEPT ![file_.name] = TarObj(file_, idx)]
       /\ (epc = "zip_member" /\ idx <= Len(files)) =>
            IF exists(files[idx]) /\ ~overwrite
            THEN fs' = fs
            ELSE fs' = [fs EXCEPT ![files[idx]] = ZipObj(idx)]]_vars

\* the failing case of C6: a link member has replaced an existing file
C6_Reached ==
    /\ ~overwrite
    /\ run = 1
    /\ ExDone
    /\ WholeTar
    /\ \E n \in Names : fs0[n] = OldFile /\ fs[n].kind = "link"

\* C7: for every destination and every non-empty archive extract_archive
\* returns the destination joined with the first path component of the
\* first extracted file's archive-relative path.
C7_Original ==
    (ExDone /\ (WholeTar \/ WholeZip)) =>
        eresult = <<"returned", path_join(to_path, split_first(FirstFileName, sep))>>

\* the failing cases of C7: a complete archive is unpacked and the call
\* raises, or returns the directory of line 29 instead of the destination's
C7_ReachedRaise ==
    /\ ExDone
    /\ WholeTar
    /\ \A n \in Names : fs[n] # fs0[n]
    /\ eresult = <<"ValueError">>

C7_ReachedOther ==
    /\ ExDone
    /\ WholeTar
    /\ eresult # <<>>
    /\ eresult[1] = "returned"
    /\ eresult[2] # path_join(to_path, split_first(FirstFileName, sep))

\* C8: the second of two calls with overwrite=False on the same complete
\* archive and destination does not raise, and leaves the tree as the first
\* call left it.
C8_Original ==
    (run = 2 /\ ExDone /\ ~overwrite /\ (WholeTar \/ WholeZip)) =>
        /\ eresult[1] = "returned"
        /\ fs = fs1
        /\ link_target = link_target1

\* the part of C8 the code keeps: with overwrite=False the second call
\* leaves every path the archive names as the first call left it and ends
\* as the first call ended, by the same return value or the same error
SecondCallKeepsTree ==
    (run = 2 /\ ~overwrite /\ ExDone) =>
        /\ fs = fs1
        /\ eresult = eresult1

NoLinkMember == \A i \in DOMAIN tar.members : tar.members[i].type # "link"

\* for an archive without link members the second call writes nothing
\* through a symbolic link either
SecondCallKeepsTargets ==
    (run = 2 /\ ~overwrite /\ ExDone /\ NoLinkMember) => link_target = link_target1

\* with a link member whose target is absent, the second call writes the
\* file member of the same name through the link: a file the first call
\* did not leave
SecondCallWroteThroughLink ==
    /\ run = 2
    /\ ExDone
    /\ ~overwrite
    /\ WholeTar
    /\ fs = fs1
    /\ link_target # link_target1

SecondCallReturned ==
    /\ run = 2
    /\ ExDone
    /\ ~overwrite
    /\ eresult[1] = "returned"
    /\ fs # fs0

\* the failing case of C8: the second call on a complete tar raises, the
\* tree being as the first call left it
C8_Reached ==
    /\ run = 2
    /\ ExDone
    /\ ~overwrite
    /\ WholeTar
    /\ tar.members # <<>>
    /\ eresult = <<"ValueError">>
    /\ fs = fs1
    /\ fs # fs0


(***************************************************************************)
(* Batch acquisition.  The URL map is a sequence in insertion order; an    *)
(* entry is what its fetch and extraction will do: "ok", "fetch_fails"     *)
(* (download_url raises) or "extract_fails" (extract_archive raises).      *)
(***************************************************************************)
\* most entries in a URL map
MaxEntries == 3

Fates == {"ok", "fetch_fails", "extract_fails"}

UrlDicts == SeqsUpTo(Fates, MaxEntries)

\* the value extract_archive returns for entry i
Root(i) == <<"root", i>>

(***************************************************************************)
(* The sequential loops.                                                   *)
(*   "formatter"  LibriTts._download_libri_tts, Mailabs._download_mailabs: *)
(*                return download_and_extract(val, self.path)              *)
(*   "mls"        downloaders.download_mls:                                *)
(*                return download_and_extract(out_path, urls[0])           *)
(*   "os"         os_dataset_downloaders.download_libri_tts and the like:  *)
(*                download_and_extract(path, val)                          *)
(* downloaders.download_and_extract takes (url, out_path); the one of      *)
(* os_dataset_downloaders takes (out_path, url) and returns nothing.       *)
(***************************************************************************)
Variants == {"formatter", "mls", "os"}

\* the parameters download_and_extract receives for entry i
CallArgs(v, i) ==
    IF v = "mls"
    THEN [url |-> <<"dir">>, out_path |-> <<"url", i>>]
    ELSE [url |-> <<"url", i>>, out_path |-> <<"dir">>]

\* whether the loop body is "return download_and_extract(...)"
ReturnsInLoop(v) == v \in {"formatter", "mls"}

SqInit ==
    /\ url_dict \in UrlDicts
    /\ variant \in Variants
    /\ spc = "loop"
    /\ si = 1
    /\ slog = <<>>
    /\ sresult = <<>>

SqFinish(r) ==
    /\ spc' = "done"
    /\ sresult' = r

\* the head of "for ... in url_dict.items()": the next entry, or the end
SeqLoop ==
    /\ spc = "loop"
    /\ IF si <= Len(url_dict)
       THEN /\ spc' = "fetch"
            /\ UNCHANGED sresult
       ELSE SqFinish(<<"returned", None>>)
    /\ UNCHANGED <<url_dict, variant, si, slog, sqOthers>>

\* download_and_extract: download_url(url, out_path)
SeqFetch ==
    /\ spc = "fetch"
    /\ LET args == CallArgs(variant, si)
       IN IF args.url[1] # "url"
          THEN \* urllib rejects a directory path: ValueError, nothing fetched
               /\ SqFinish(<<"ValueError">>)
               /\ UNCHANGED slog
          ELSE IF url_dict[si] = "fetch_fails"
          THEN /\ SqFinish(<<"FetchError", si>>)
               /\ UNCHANGED slog
          ELSE /\ slog' = Append(slog, <<"fetch", si>>)
               /\ spc' = "extract"
               /\ UNCHANGED sresult
    /\ UNCHANGED <<url_dict, variant, si, sqOthers>>

\* download_and_extract: extract_archive(archive), and what the loop body
\* does with its value
SeqExtract ==
    /\ spc = "extract"
    /\ IF url_dict[si] = "extract_fails"
       THEN /\ SqFinish(<<"ExtractError", si>>)
            /\ UNCHANGED <<slog, si>>
       ELSE /\ slog' = Append(slog, <<"extract", si>>)
            /\ IF ReturnsInLoop(variant)
               THEN /\ SqFinish(<<"returned", Root(si)>>)
                    /\ UNCHANGED si
               ELSE /\ si' = si + 1
                    /\ spc' = "loop"
                    /\ UNCHANGED sresult
    /\ UNCHANGED <<url_dict, variant, sqOthers>>

SqNext ==
    \/ SeqLoop
    \/ SeqFetch
    \/ SeqExtract

(***************************************************************************)
(* async_download_urls.  A unit is download_and_extract for one entry.     *)
(* apply_async puts the unit on the pool's task queue; the pool's task     *)
(* handler thread takes the units in order and pickles each for a worker.  *)
(* The function is nested in async_download_urls (line 234), which the     *)
(* pickler rejects: the handler stores the error in the unit's             *)
(* AsyncResult, which nothing reads, and no worker ever receives a unit.   *)
(* So no unit runs, and progress_list.append(1) of line 241 is never       *)
(* executed.                                                               *)
(***************************************************************************)
\* most worker processes
MaxWorkers == 2

TaskStates == {"unsubmitted", "queued", "failed"}

Entries == 1..Len(url_dict)

\* lines 233 and 243-245: the arguments, the Manager list and the pool;
\* what would befall the fetch and the extraction of an entry plays no
\* part, since no unit gets that far
AsInit ==
    /\ url_dict \in UrlDicts
    /\ cpu_count \in 1..MaxWorkers
    /\ apc = "submit"
    /\ ai = 1
    /\ task = [i \in 1..Len(url_dict) |-> "unsubmitted"]
    /\ progress_list = <<>>

\* lines 247-248: pool.apply_async for the next entry
AsyncSubmit ==
    /\ apc = "submit"
    /\ ai <= Len(url_dict)
    /\ task' = [task EXCEPT ![ai] = "queued"]
    /\ ai' = ai + 1
    /\ UNCHANGED <<url_dict, cpu_count, apc, progress_list, asOthers>>

\* line 250: pool.close()
AsyncClose ==
    /\ apc = "submit"
    /\ ai > Len(url_dict)
    /\ apc' = "poll"
    /\ UNCHANGED <<url_dict, cpu_count, ai, task, progress_list, asOthers>>

\* line 248, in the pool's task handler thread: the oldest queued unit is
\* pickled for a worker, which fails for the nested function of line 234;
\* the error goes to the unit's AsyncResult
TaskDispatch ==
    /\ \E i \in Entries :
          /\ task[i] = "queued"
          /\ \A j \in 1..(i - 1) : task[j] # "queued"
          /\ task' = [task EXCEPT ![i] = "failed"]
    /\ UNCHANGED <<url_dict, cpu_count, apc, ai, progress_list, asOthers>>

\* mutant: the loop waits for one entry fewer
AsyncPollShort ==
    /\ apc = "poll"
    /\ ~(Len(progress_list) < Len(url_dict) - 1)
    /\ apc' = "join"
    /\ UNCHANGED <<url_dict, cpu_count, ai, task, progress_list, asOthers>>

\* lines 253-256: the loop ends when len(progress_list) < len(url_dict) is
\* false; a turn that finds it true changes nothing
AsyncPoll ==
    /\ apc = "poll"
    /\ ~(Len(progress_list) < Len(url_dict))
    /\ apc' = "join"
    /\ UNCHANGED <<url_dict, cpu_count, ai, task, progress_list, asOthers>>

\* lines 258-259: pool.join() returns when the threads and the workers of
\* the closed pool have ended, and the task handler thread ends when it
\* has taken every unit off the queue
AsyncJoin ==
    /\ apc = "join"
    /\ \A i \in Entries : task[i] = "failed"
    /\ apc' = "returned"
    /\ UNCHANGED <<url_dict, cpu_count, ai, task, progress_list, asOthers>>

AsNext ==
    \/ AsyncSubmit
    \/ AsyncClose
    \/ TaskDispatch
    \/ AsyncPoll
    \/ AsyncJoin

(***************************************************************************)
(* match_textfiles_list.  Paths and file contents are strings, as          *)
(* sequences of characters; "\n" is the newline character and "\r" the     *)
(* carriage return.                                                        *)
(***************************************************************************)
\* most audio paths, most transcript paths
MaxAudio == 2
MaxText == 2

AudioPaths ==
    { <<"d", "/", "a", ".", "w", "a", "v">>,
      <<"a", ".", "b", ".", "w", "a", "v">>,
      <<"a", ".", "m", "p", "3">>,
      <<"c", ".", "w", "a", "v">> }

TextPaths ==
    { <<"a", ".", "n", ".", "t", "x", "t">>,
      <<"t", "/", "a", ".", "t", "x", "t">>,
      <<"c", ".", "t", "x", "t">> }

TextContents ==
    { <<>>, <<"h", "i">>, <<"h", "\n", "o", "\n">>, <<"h", "\r", "\n", "o", "\r">> }

\* os.path.basename(p).split(".")[0]
base_name(p) == split_first(basename(p), ".")

\* os.path.splitext(os.path.basename(p))[0]: the name without its extension
splitext_root(p) ==
    LET name == basename(p)
        dot == rfind1(name, ".")
    IN IF dot > 1 /\ lstrip(SubSeq(name, 1, dot - 1), ".") # <<>>
       THEN SubSeq(name, 1, dot - 1)
       ELSE name

\* open(text_file, "r").read(): text mode turns "\r\n" and "\r" into "\n"
RECURSIVE TextRead(_)
TextRead(t) ==
    IF t = <<>> THEN <<>>
    ELSE IF Head(t) = "\r"
    THEN <<"\n">> \o TextRead(IF Len(t) > 1 /\ t[2] = "\n"
                               THEN SubSeq(t, 3, Len(t)) ELSE Tail(t))
    ELSE <<Head(t)>> \o TextRead(Tail(t))

\* transcript.replace("\n", "")
RemoveNewlines(t) == SelectSeq(t, LAMBDA c : c # "\n")

\* the position of key k in the dict, 0 if it is not a key
RECURSIVE KeyIndex(_, _)
KeyIndex(m, k) ==
    IF m = <<>> THEN 0
    ELSE IF m[Len(m)].key = k THEN Len(m)
    ELSE KeyIndex(SubSeq(m, 1, Len(m) - 1), k)

\* m[k] = v: a new key goes last, an old key keeps its place
DictSet(m, k, v) ==
    IF KeyIndex(m, k) = 0
    THEN Append(m, [key |-> k, value |-> v])
    ELSE [m EXCEPT ![KeyIndex(m, k)] = [key |-> k, value |-> v]]

MtInit ==
    /\ audio_files \in SeqsUpTo(AudioPaths, MaxAudio)
    /\ text_files \in SeqsUpTo(TextPaths, MaxText)
    /\ disk \in [TextPaths -> TextContents]
    /\ files_map = <<>>
    /\ mpc = "audio"
    /\ mi = 1
    /\ matched_files = <<>>

\* mutant: an audio path whose base name is already a key is ignored
MatchAudioKeepsFirst ==
    /\ mpc = "audio"
    /\ IF mi <= Len(audio_files)
       THEN /\ files_map' =
                  IF KeyIndex(files_map, base_name(audio_files[mi])) = 0
                  THEN DictSet(files_map, base_name(audio_files[mi]),
                               [audio_file |-> audio_files[mi], text |-> None])
                  ELSE files_map
            /\ mi' = mi + 1
            /\ UNCHANGED mpc
       ELSE /\ mpc' = "text"
            /\ mi' = 1
            /\ UNCHANGED files_map
    /\ UNCHANGED <<audio_files, text_files, disk, matched_files, mtOthers>>

\* lines 8-10: one turn of the loop over audio_files, or its end
MatchAudio ==
    /\ mpc = "audio"
    /\ IF mi <= Len(audio_files)
       THEN /\ files_map' = DictSet(files_map, base_name(audio_files[mi]),
                                    [audio_file |-> audio_files[mi], text |-> None])
            /\ mi' = mi + 1
            /\ UNCHANGED mpc
       ELSE /\ mpc' = "text"
            /\ mi' = 1
            /\ UNCHANGED files_map
    /\ UNCHANGED <<audio_files, text_files, disk, matched_files, mtOthers>>

\* mutant: the transcript is attached as read
MatchTextAsRead ==
    /\ mpc = "text"
    /\ IF mi <= Len(text_files)
       THEN /\ LET k == KeyIndex(files_map, base_name(text_files[mi]))
               IN files_map' =
                     IF k = 0 THEN files_map
                     ELSE [files_map EXCEPT ![k].value.text =
                              Some(TextRead(disk[text_files[mi]]))]
            /\ mi' = mi + 1
            /\ UNCHANGED mpc
       ELSE /\ mpc' = "filter"
            /\ UNCHANGED <<files_map, mi>>
    /\ UNCHANGED <<audio_files, text_files, disk, matched_files, mtOthers>>

\* lines 11-16: one turn of the loop over text_files, or its end
MatchText ==
    /\ mpc = "text"
    /\ IF mi <= Len(text_files)
       THEN /\ LET k == KeyIndex(files_map, base_name(text_files[mi]))
               IN files_map' =
                     IF k = 0 THEN files_map
                     ELSE [files_map EXCEPT ![k].value.text =
                              Some(RemoveNewlines(TextRead(disk[text_files[mi]])))]
            /\ mi' = mi + 1
            /\ UNCHANGED mpc
       ELSE /\ mpc' = "filter"
            /\ UNCHANGED <<files_map, mi>>
    /\ UNCHANGED <<audio_files, text_files, disk, matched_files, mtOthers>>

\* the values of the dict, in order
DictValues(m) == [i \in 1..Len(m) |-> m[i].value]

\* lines 17-18
MatchReturn ==
    /\ mpc = "filter"
    /\ matched_files' = SelectSeq(DictValues(files_map), LAMBDA f : f.text # None)
    /\ mpc' = "done"
    /\ UNCHANGED <<audio_files, text_files, disk, files_map, mi, mtOthers>>

MtNext ==
    \/ MatchAudio
    \/ MatchText
    \/ MatchReturn

(***************************************************************************)
(* LibriTts._preprocess from the matched samples on, and                   *)
(* create_dataset_information.  The audio files are wav files              *)
(* (audio_format = "wav", no conversion).  Durations are in thousandths of *)
(* a second, so that the float -1 of get_audio_length is -1000.            *)
(***************************************************************************)
\* most matched samples, most rows of speakers.tsv, most unreadable files,
\* most files for which the noise estimate fails
MaxSamples == 2
MaxSpeakers == 2
MaxCorrupt == 1
MaxSnrRaises == 1

TRAIN == <<"t", "r", "a", "i", "n">>
TEST == <<"t", "e", "s", "t">>
DEV == <<"d", "e", "v">>

\* glob(f"{self.path}/*/*/*/*.wav"): subset / speaker / chapter / file
SamplePaths ==
    { <<"r", "/", "t", "r", "a", "i", "n", "/", "1", "/", "b", "/", "a", ".", "w", "a", "v">>,
      <<"r", "/", "t", "e", "s", "t", "/", "2", "/", "b", "/", "c", ".", "w", "a", "v">>,
      <<"r", "/", "d", "e", "v", "/", "+", "\\u0661", "/", "b", "/", "e", ".", "w", "a", "v">>,
      <<"r", "/", "o", "/", "x", "/", "b", "/", "f", ".", "w", "a", "v">>,
      <<"r", "/", "d", "e", "v", "t", "e", "s", "t", "/", "2", "/", "b", "/", "g", ".", "w", "a", "v">>,
      <<"r", "/", "o", "/", "2", "/", "b", "/", "h", ".", "w", "a", "v">> }

Genders == {"F", "M"}

SpeakerRows == [READER : {1, 2}, GENDER : Genders]

\* s.split(c): the parts of s between the occurrences of c
RECURSIVE split(_, _)
split(s, c) ==
    LET first == split_first(s, c)
    IN IF Len(first) = Len(s) THEN <<s>>
       ELSE <<first>> \o split(SubSeq(s, Len(first) + 2, Len(s)), c)

\* "sub in s"
RECURSIVE contains(_, _)
contains(s, sub) ==
    IF startswith(s, sub) THEN TRUE
    ELSE IF s = <<>> THEN FALSE
    ELSE contains(Tail(s), sub)

Digits == [c \in {"0", "1", "2", "3", "4", "5", "6", "7", "8", "9"} |->
              CASE c = "0" -> 0 [] c = "1" -> 1 [] c = "2" -> 2 [] c = "3" -> 3
                [] c = "4" -> 4 [] c = "5" -> 5 [] c = "6" -> 6 [] c = "7" -> 7
                [] c = "8" -> 8 [] c = "9" -> 9]

\* A character of a string is a string of length one; a character that the
\* module cannot hold as it is stands as its escape, "\\x0b" for the
\* vertical tab, "\\u0661" for ARABIC-INDIC DIGIT ONE.

\* the characters int() strips from both ends of its argument: those of
\* str.isspace() but the separators 0x1c to 0x1f
Whitespace ==
    {"\t", "\n", "\\x0b", "\f", "\r", " ", "\\x85", "\\xa0", "\\u1680",
      "\\u2000", "\\u2001", "\\u2002", "\\u2003", "\\u2004", "\\u2005",
      "\\u2006", "\\u2007", "\\u2008", "\\u2009", "\\u200a", "\\u2028",
      "\\u2029", "\\u202f", "\\u205f", "\\u3000" }

\* the decimal digits int() reads (category Nd), zero to nine of every script
DecimalRuns ==
    {
      <<"0", "1", "2", "3", "4", "5", "6", "7", "8", "9">>,
      <<"\\u0660", "\\u0661", "\\u0662", "\\u0663", "\\u0664", "\\u0665", "\\u0666", "\\u0667", "\\u0668", "\\u0669">>,
      <<"\\u06f0", "\\u06f1", "\\u06f2", "\\u06f3", "\\u06f4", "\\u06f5", "\\u06f6", "\\u06f7", "\\u06f8", "\\u06f9">>,
      <<"\\u07c0", "\\u07c1", "\\u07c2", "\\u07c3", "\\u07c4", "\\u07c5", "\\u07c6", "\\u07c7", "\\u07c8", "\\u07c9">>,
      <<"\\u0966", "\\u0967", "\\u0968", "\\u0969", "\\u096a", "\\u096b", "\\u096c", "\\u096d", "\\u096e", "\\u096f">>,
      <<"\\u09e6", "\\u09e7", "\\u09e8", "\\u09e9", "\\u09ea", "\\u09eb", "\\u09ec", "\\u09ed", "\\u09ee", "\\u09ef">>,
      <<"\\u0a66", "\\u0a67", "\\u0a68", "\\u0a69", "\\u0a6a", "\\u0a6b", "\\u0a6c", "\\u0a6d", "\\u0a6e", "\\u0a6f">>,
      <<"\\u0ae6", "\\u0ae7", "\\u0ae8", "\\u0ae9", "\\u0aea", "\\u0aeb", "\\u0aec", "\\u0aed", "\\u0aee", "\\u0aef">>,
      <<"\\u0b66", "\\u0b67", "\\u0b68", "\\u0b69", "\\u0b6a", "\\u0b6b", "\\u0b6c", "\\u0b6d", "\\u0b6e", "\\u0b6f">>,
      <<"\\u0be6", "\\u0be7", "\\u0be8", "\\u0be9", "\\u0bea", "\\u0beb", "\\u0bec", "\\u0bed", "\\u0bee", "\\u0bef">>,
      <<"\\u0c66", "\\u0c67", "\\u0c68", "\\u0c69", "\\u0c6a", "\\u0c6b", "\\u0c6c", "\\u0c6d", "\\u0c6e", "\\u0c6f">>,
      <<"\\u0ce6", "\\u0ce7", "\\u0ce8", "\\u0ce9", "\\u0cea", "\\u0ceb", "\\u0cec", "\\u0ced", "\\u0cee", "\\u0cef">>,
      <<"\\u0d66", "\\u0d67", "\\u0d68", "\\u0d69", "\\u0d6a", "\\u0d6b", "\\u0d6c", "\\u0d6d", "\\u0d6e", "\\u0d6f">>,
      <<"\\u0de6", "\\u0de7", "\\u0de8", "\\u0de9", "\\u0dea", "\\u0deb", "\\u0dec", "\\u0ded", "\\u0dee", "\\u0def">>,
      <<"\\u0e50", "\\u0e51", "\\u0e52", "\\u0e53", "\\u0e54", "\\u0e55", "\\u0e56", "\\u0e57", "\\u0e58", "\\u0e59">>,
      <<"\\u0ed0", "\\u0ed1", "\\u0ed2", "\\u0ed3", "\\u0ed4", "\\u0ed5", "\\u0ed6", "\\u0ed7", "\\u0ed8", "\\u0ed9">>,
      <<"\\u0f20", "\\u0f21", "\\u0f22", "\\u0f23", "\\u0f24", "\\u0f25", "\\u0f26", "\\u0f27", "\\u0f28", "\\u0f29">>,
      <<"\\u1040", "\\u1041", "\\u1042", "\\u1043", "\\u1044", "\\u1045", "\\u1046", "\\u1047", "\\u1048", "\\u1049">>,
      <<"\\u1090", "\\u1091", "\\u1092", "\\u1093", "\\u1094", "\\u1095", "\\u1096", "\\u1097", "\\u1098", "\\u1099">>,
      <<"\\u17e0", "\\u17e1", "\\u17e2", "\\u17e3", "\\u17e4", "\\u17e5", "\\u17e6", "\\u17e7", "\\u17e8", "\\u17e9">>,
      <<"\\u1810", "\\u1811", "\\u1812", "\\u1813", "\\u1814", "\\u1815", "\\u1816", "\\u1817", "\\u1818", "\\u1819">>,
      <<"\\u1946", "\\u1947", "\\u1948", "\\u1949", "\\u194a", "\\u194b", "\\u194c", "\\u194d", "\\u194e", "\\u194f">>,
      <<"\\u19d0", "\\u19d1", "\\u19d2", "\\u19d3", "\\u19d4", "\\u19d5", "\\u19d6", "\\u19d7", "\\u19d8", "\\u19d9">>,
      <<"\\u1a80", "\\u1a81", "\\u1a82", "\\u1a83", "\\u1a84", "\\u1a85", "\\u1a86", "\\u1a87", "\\u1a88", "\\u1a89">>,
      <<"\\u1a90", "\\u1a91", "\\u1a92", "\\u1a93", "\\u1a94", "\\u1a95", "\\u1a96", "\\u1a97", "\\u1a98", "\\u1a99">>,
      <<"\\u1b50", "\\u1b51", "\\u1b52", "\\u1b53", "\\u1b54", "\\u1b55", "\\u1b56", "\\u1b57", "\\u1b58", "\\u1b59">>,
      <<"\\u1bb0", "\\u1bb1", "\\u1bb2", "\\u1bb3", "\\u1bb4", "\\u1bb5", "\\u1bb6", "\\u1bb7", "\\u1bb8", "\\u1bb9">>,
      <<"\\u1c40", "\\u1c41", "\\u1c42", "\\u1c43", "\\u1c44", "\\u1c45", "\\u1c46", "\\u1c47", "\\u1c48", "\\u1c49">>,
      <<"\\u1c50", "\\u1c51", "\\u1c52", "\\u1c53", "\\u1c54", "\\u1c55", "\\u1c56", "\\u1c57", "\\u1c58", "\\u1c59">>,
      <<"\\ua620", "\\ua621", "\\ua622", "\\ua623", "\\ua624", "\\ua625", "\\ua626", "\\ua627", "\\ua628", "\\ua629">>,
      <<"\\ua8d0", "\\ua8d1", "\\ua8d2", "\\ua8d3", "\\ua8d4", "\\ua8d5", "\\ua8d6", "\\ua8d7", "\\ua8d8", "\\ua8d9">>,
      <<"\\ua900", "\\ua901", "\\ua902", "\\ua903", "\\ua904", "\\ua905", "\\ua906", "\\ua907", "\\ua908", "\\ua909">>,
      <<"\\ua9d0", "\\ua9d1", "\\ua9d2", "\\ua9d3", "\\ua9d4", "\\ua9d5", "\\ua9d6", "\\ua9d7", "\\ua9d8", "\\ua9d9">>,
      <<"\\ua9f0", "\\ua9f1", "\\ua9f2", "\\ua9f3", "\\ua9f4", "\\ua9f5", "\\ua9f6", "\\ua9f7", "\\ua9f8", "\\ua9f9">>,
      <<"\\uaa50", "\\uaa51", "\\uaa52", "\\uaa53", "\\uaa54", "\\uaa55", "\\uaa56", "\\uaa57", "\\uaa58", "\\uaa59">>,
      <<"\\uabf0", "\\uabf1", "\\uabf2", "\\uabf3", "\\uabf4", "\\uabf5", "\\uabf6", "\\uabf7", "\\uabf8", "\\uabf9">>,
      <<"\\uff10", "\\uff11", "\\uff12", "\\uff13", "\\uff14", "\\uff15", "\\uff16", "\\uff17", "\\uff18", "\\uff19">>,
      <<"\\U000104a0", "\\U000104a1", "\\U000104a2", "\\U000104a3", "\\U000104a4", "\\U000104a5", "\\U000104a6", "\\U000104a7", "\\U000104a8", "\\U000104a9">>,
      <<"\\U00010d30", "\\U00010d31", "\\U00010d32", "\\U00010d33", "\\U00010d34", "\\U00010d35", "\\U00010d36", "\\U00010d37", "\\U00010d38", "\\U00010d39">>,
      <<"\\U00011066", "\\U00011067", "\\U00011068", "\\U00011069", "\\U0001106a", "\\U0001106b", "\\U0001106c", "\\U0001106d", "\\U0001106e", "\\U0001106f">>,
      <<"\\U000110f0", "\\U000110f1", "\\U000110f2", "\\U000110f3", "\\U000110f4", "\\U000110f5", "\\U000110f6", "\\U000110f7", "\\U000110f8", "\\U000110f9">>,
      <<"\\U00011136", "\\U00011137", "\\U00011138", "\\U00011139", "\\U0001113a", "\\U0001113b", "\\U0001113c", "\\U0001113d", "\\U0001113e", "\\U0001113f">>,
      <<"\\U000111d0", "\\U000111d1", "\\U000111d2", "\\U000111d3", "\\U000111d4", "\\U000111d5", "\\U000111d6", "\\U000111d7", "\\U000111d8", "\\U000111d9">>,
      <<"\\U000112f0", "\\U000112f1", "\\U000112f2", "\\U000112f3", "\\U000112f4", "\\U000112f5", "\\U000112f6", "\\U000112f7", "\\U000112f8", "\\U000112f9">>,
      <<"\\U00011450", "\\U00011451", "\\U00011452", "\\U00011453", "\\U00011454", "\\U00011455", "\\U00011456", "\\U00011457", "\\U00011458", "\\U00011459">>,
      <<"\\U000114d0", "\\U000114d1", "\\U000114d2", "\\U000114d3", "\\U000114d4", "\\U000114d5", "\\U000114d6", "\\U000114d7", "\\U000114d8", "\\U000114d9">>,
      <<"\\U00011650", "\\U00011651", "\\U00011652", "\\U00011653", "\\U00011654", "\\U00011655", "\\U00011656", "\\U00011657", "\\U00011658", "\\U00011659">>,
      <<"\\U000116c0", "\\U000116c1", "\\U000116c2", "\\U000116c3", "\\U000116c4", "\\U000116c5", "\\U000116c6", "\\U000116c7", "\\U000116c8", "\\U000116c9">>,
      <<"\\U00011730", "\\U00011731", "\\U00011732", "\\U00011733", "\\U00011734", "\\U00011735", "\\U00011736", "\\U00011737", "\\U00011738", "\\U00011739">>,
      <<"\\U000118e0", "\\U000118e1", "\\U000118e2", "\\U000118e3", "\\U000118e4", "\\U000118e5", "\\U000118e6", "\\U000118e7", "\\U000118e8", "\\U000118e9">>,
      <<"\\U00011950", "\\U00011951", "\\U00011952", "\\U00011953", "\\U00011954", "\\U00011955", "\\U00011956", "\\U00011957", "\\U00011958", "\\U00011959">>,
      <<"\\U00011c50", "\\U00011c51", "\\U00011c52", "\\U00011c53", "\\U00011c54", "\\U00011c55", "\\U00011c56", "\\U00011c57", "\\U00011c58", "\\U00011c59">>,
      <<"\\U00011d50", "\\U00011d51", "\\U00011d52", "\\U00011d53", "\\U00011d54", "\\U00011d55", "\\U00011d56", "\\U00011d57", "\\U00011d58", "\\U00011d59">>,
      <<"\\U00011da0", "\\U00011da1", "\\U00011da2", "\\U00011da3", "\\U00011da4", "\\U00011da5", "\\U00011da6", "\\U00011da7", "\\U00011da8", "\\U00011da9">>,
      <<"\\U00016a60", "\\U00016a61", "\\U00016a62", "\\U00016a63", "\\U00016a64", "\\U00016a65", "\\U00016a66", "\\U00016a67", "\\U00016a68", "\\U00016a69">>,
      <<"\\U00016ac0", "\\U00016ac1", "\\U00016ac2", "\\U00016ac3", "\\U00016ac4", "\\U00016ac5", "\\U00016ac6", "\\U00016ac7", "\\U00016ac8", "\\U00016ac9">>,
      <<"\\U00016b50", "\\U00016b51", "\\U00016b52", "\\U00016b53", "\\U00016b54", "\\U00016b55", "\\U00016b56", "\\U00016b57", "\\U00016b58", "\\U00016b59">>,
      <<"\\U0001d7ce", "\\U0001d7cf", "\\U0001d7d0", "\\U0001d7d1", "\\U0001d7d2", "\\U0001d7d3", "\\U0001d7d4", "\\U0001d7d5", "\\U0001d7d6", "\\U0001d7d7">>,
      <<"\\U0001d7d8", "\\U0001d7d9", "\\U0001d7da", "\\U0001d7db", "\\U0001d7dc", "\\U0001d7dd", "\\U0001d7de", "\\U0001d7df", "\\U0001d7e0", "\\U0001d7e1">>,
      <<"\\U0001d7e2", "\\U0001d7e3", "\\U0001d7e4", "\\U0001d7e5", "\\U0001d7e6", "\\U0001d7e7", "\\U0001d7e8", "\\U0001d7e9", "\\U0001d7ea", "\\U0001d7eb">>,
      <<"\\U0001d7ec", "\\U0001d7ed", "\\U0001d7ee", "\\U0001d7ef", "\\U0001d7f0", "\\U0001d7f1", "\\U0001d7f2", "\\U0001d7f3", "\\U0001d7f4", "\\U0001d7f5">>,
      <<"\\U0001d7f6", "\\U0001d7f7", "\\U0001d7f8", "\\U0001d7f9", "\\U0001d7fa", "\\U0001d7fb", "\\U0001d7fc", "\\U0001d7fd", "\\U0001d7fe", "\\U0001d7ff">>,
      <<"\\U0001e140", "\\U0001e141", "\\U0001e142", "\\U0001e143", "\\U0001e144", "\\U0001e145", "\\U0001e146", "\\U0001e147", "\\U0001e148", "\\U0001e149">>,
      <<"\\U0001e2f0", "\\U0001e2f1", "\\U0001e2f2", "\\U0001e2f3", "\\U0001e2f4", "\\U0001e2f5", "\\U0001e2f6", "\\U0001e2f7", "\\U0001e2f8", "\\U0001e2f9">>,
      <<"\\U0001e950", "\\U0001e951", "\\U0001e952", "\\U0001e953", "\\U0001e954", "\\U0001e955", "\\U0001e956", "\\U0001e957", "\\U0001e958", "\\U0001e959">>,
      <<"\\U0001fbf0", "\\U0001fbf1", "\\U0001fbf2", "\\U0001fbf3", "\\U0001fbf4", "\\U0001fbf5", "\\U0001fbf6", "\\U0001fbf7", "\\U0001fbf8", "\\U0001fbf9">> }

\* unicodedata.decimal
Decimal ==
    [c \in UNION {{r[i] : i \in 1..10} : r \in DecimalRuns} |->
        CHOOSE v \in 0..9 : \E r \in DecimalRuns : r[v + 1] = c]

RECURSIVE StripWhitespace(_)
StripWhitespace(s) ==
    IF s # <<>> /\ Head(s) \in Whitespace THEN StripWhitespace(Tail(s))
    ELSE IF s # <<>> /\ s[Len(s)] \in Whitespace
    THEN StripWhitespace(SubSeq(s, 1, Len(s) - 1))
    ELSE s

\* the argument of int() without its surrounding whitespace and its sign
Unsigned(s) ==
    LET t == StripWhitespace(s)
    IN IF t # <<>> /\ Head(t) \in {"+", "-"} THEN Tail(t) ELSE t

\* whether int(s) accepts s: optional whitespace around an optional sign and
\* decimal digits of any script, single underscores allowed between digits
IsInt(s) ==
    LET u == Unsigned(s)
    IN /\ u # <<>>
       /\ u[1] \in DOMAIN Decimal
       /\ u[Len(u)] \in DOMAIN Decimal
       /\ \A i \in 2..Len(u) :
             u[i] \in DOMAIN Decimal \/ (u[i] = "_" /\ u[i - 1] # "_")

\* the value of a string of decimal digits
RECURSIVE DigitsValue(_)
DigitsValue(s) ==
    IF s = <<>> THEN 0
    ELSE 10 * DigitsValue(SubSeq(s, 1, Len(s) - 1)) + Decimal[s[Len(s)]]

\* int(s), for an s it accepts
ParseInt(s) ==
    LET t == StripWhitespace(s)
        v == DigitsValue(SelectSeq(Unsigned(s), LAMBDA c : c # "_"))
    IN IF t # <<>> /\ Head(t) = "-" THEN 0 - v ELSE v

\* sample['audio_file'].split("/")[-3]
SpeakerSegment(path) ==
    LET parts == split(path, sep)
    IN parts[Len(parts) - 2]

\* df[df['READER'] == speaker_id]
SpeakerMatches(df, speaker_id) == SelectSeq(df, LAMBDA r : r.READER = speaker_id)

\* AudioSegment.from_file of a readable file: len() in ms, frame_rate
AudioInfo(path) ==
    IF contains(path, TRAIN) THEN <<1500, 16000>>
    ELSE <<2000, 24000>>

\* wada_snr(path), for a file it accepts
SnrOf(path) == IF contains(path, TRAIN) THEN 20 ELSE 35

\* get_audio_length: the bare except of line 28 turns every failure into -1, -1
get_audio_length(audio_path) ==
    IF audio_path \in corrupt THEN <<-1000, -1>> ELSE AudioInfo(audio_path)

\* sequences over S of at most n elements, no element twice
SeqsNoRepeat(S, n) ==
    {q \in SeqsUpTo(S, n) : \A i, j \in DOMAIN q : q[i] = q[j] => i = j}

SubsetsUpTo(S, n) == {T \in SUBSET S : Cardinality(T) <= n}

NoTables == [metadata |-> None, train |-> None, test |-> None, dev |-> None]

LtInit ==
    /\ \E paths \in SeqsNoRepeat(SamplePaths, MaxSamples) :
          samples = [i \in DOMAIN paths |-> [audio_file |-> paths[i], text |-> "t"]]
    /\ speakers_df \in SeqsUpTo(SpeakerRows, MaxSpeakers)
    /\ corrupt \in SubsetsUpTo(SamplePaths, MaxCorrupt)
    /\ snr_raises \in SubsetsUpTo(SamplePaths, MaxSnrRaises)
    /\ lpc = "join"
    /\ li = 1
    /\ tables = NoTables
    /\ df_dict = <<>>
    /\ card = None
    /\ lresult = <<>>

LtFinish(r) ==
    /\ lpc' = "done"
    /\ lresult' = r

LtFrame == UNCHANGED <<speakers_df, corrupt, snr_raises, ltOthers>>

\* mutant: a speaker without a row gets no gender and the join goes on
GetSpeakerAndGenderLenient ==
    /\ lpc = "join"
    /\ IF li <= Len(samples)
       THEN LET seg == SpeakerSegment(samples[li].audio_file)
                rows == SpeakerMatches(speakers_df, ParseInt(seg))
            IN IF ~IsInt(seg)
               THEN /\ LtFinish(<<"ValueError">>)
                    /\ UNCHANGED <<samples, li>>
               ELSE /\ samples' = [samples EXCEPT ![li] =
                           [audio_file |-> samples[li].audio_file,
                            text |-> samples[li].text,
                            speaker |-> ParseInt(seg),
                            gender |-> IF rows = <<>> THEN "?" ELSE rows[1].GENDER]]
                    /\ li' = li + 1
                    /\ UNCHANGED <<lpc, lresult>>
       ELSE /\ lpc' = "snr"
            /\ li' = 1
            /\ UNCHANGED <<samples, lresult>>
    /\ UNCHANGED <<tables, df_dict, card>>
    /\ LtFrame

\* lines 142-147: one turn of the loop of _get_speaker_and_gender, or its end
GetSpeakerAndGender ==
    /\ lpc = "join"
    /\ IF li <= Len(samples)
       THEN LET seg == SpeakerSegment(samples[li].audio_file)
                rows == SpeakerMatches(speakers_df, ParseInt(seg))
            IN IF ~IsInt(seg)
               THEN /\ LtFinish(<<"ValueError">>)
                    /\ UNCHANGED <<samples, li>>
               ELSE IF rows = <<>>
               THEN \* .iloc[0] of an empty frame
                    /\ LtFinish(<<"IndexError">>)
                    /\ UNCHANGED <<samples, li>>
               ELSE /\ samples' = [samples EXCEPT ![li] =
                           [audio_file |-> samples[li].audio_file,
                            text |-> samples[li].text,
                            speaker |-> ParseInt(seg),
                            gender |-> rows[1].GENDER]]
                    /\ li' = li + 1
                    /\ UNCHANGED <<lpc, lresult>>
       ELSE /\ lpc' = "snr"
            /\ li' = 1
            /\ UNCHANGED <<samples, lresult>>
    /\ UNCHANGED <<tables, df_dict, card>>
    /\ LtFrame

\* lines 169-170: one turn of the loop computing the noise estimate, or its end
CalculateSnr ==
    /\ lpc = "snr"
    /\ IF li <= Len(samples)
       THEN IF samples[li].audio_file \in snr_raises
            THEN /\ LtFinish(<<"SnrError">>)
                 /\ UNCHANGED <<samples, li>>
            ELSE /\ samples' = [samples EXCEPT ![li] =
                        [audio_file |-> samples[li].audio_file,
                         text |-> samples[li].text,
                         speaker |-> samples[li].speaker,
                         gender |-> samples[li].gender,
                         snr |-> SnrOf(samples[li].audio_file)]]
                 /\ li' = li + 1
                 /\ UNCHANGED <<lpc, lresult>>
       ELSE /\ lpc' = "write"
            /\ li' = 1
            /\ UNCHANGED <<samples, lresult>>
    /\ UNCHANGED <<tables, df_dict, card>>
    /\ LtFrame

\* [i for i in speaker_samples if name in i['audio_file']]
SplitOf(rows, name) == SelectSeq(rows, LAMBDA r : contains(r.audio_file, name))

\* mutant: the split tables hold the rows whose path starts with the name
WriteTablesByPrefix ==
    /\ lpc = "write"
    /\ tables' = [metadata |-> Some(samples),
                  train |-> Some(SelectSeq(samples, LAMBDA r : startswith(r.audio_file, TRAIN))),
                  test |-> Some(SelectSeq(samples, LAMBDA r : startswith(r.audio_file, TEST))),
                  dev |-> Some(SelectSeq(samples, LAMBDA r : startswith(r.audio_file, DEV)))]
    /\ lpc' = "card_read"
    /\ UNCHANGED <<samples, li, df_dict, card, lresult>>
    /\ LtFrame

\* lines 172-184: the splits and the four tables
WriteTables ==
    /\ lpc = "write"
    /\ tables' = [metadata |-> Some(samples),
                  train |-> Some(SplitOf(samples, TRAIN)),
                  test |-> Some(SplitOf(samples, TEST)),
                  dev |-> Some(SplitOf(samples, DEV))]
    /\ lpc' = "card_read"
    /\ UNCHANGED <<samples, li, df_dict, card, lresult>>
    /\ LtFrame

\* get_audio_lengths, lines 35-36: the rows of metadata.csv, which are the
\* rows line 181 wrote (paths, numbers and a text without delimiter).  A table
\* without rows has no columns: reading it, or the column audio_len of
\* the frame made of no rows (line 55), raises
ReadMetadata ==
    /\ lpc = "card_read"
    /\ IF tables.metadata[1] = <<>>
       THEN /\ \E err \in {"EmptyDataError", "KeyError"} : LtFinish(<<err>>)
            /\ UNCHANGED <<df_dict, li>>
       ELSE /\ df_dict' = tables.metadata[1]
            /\ li' = 1
            /\ lpc' = "card_len"
            /\ UNCHANGED lresult
    /\ UNCHANGED <<samples, tables, card>>
    /\ LtFrame

\* the row with the two columns of lines 39-40
WithLength(row, lr) ==
    [audio_len |-> lr[1], sample_rate |-> lr[2]] @@ row

\* mutant: get_audio_length without its except clause
AudioLengthNoExcept ==
    /\ lpc = "card_len"
    /\ IF li <= Len(df_dict)
       THEN IF df_dict[li].audio_file \in corrupt
            THEN /\ LtFinish(<<"CouldntDecodeError">>)
                 /\ UNCHANGED <<df_dict, li>>
            ELSE /\ df_dict' = [df_dict EXCEPT ![li] =
                        WithLength(df_dict[li], get_audio_length(df_dict[li].audio_file))]
                 /\ li' = li + 1
                 /\ UNCHANGED <<lpc, lresult>>
       ELSE /\ lpc' = "card_write"
            /\ UNCHANGED <<df_dict, li, lresult>>
    /\ UNCHANGED <<samples, tables, card>>
    /\ LtFrame

\* get_audio_lengths, lines 37-40: one turn of the loop, or its end
AudioLength ==
    /\ lpc = "card_len"
    /\ IF li <= Len(df_dict)
       THEN /\ df_dict' = [df_dict EXCEPT ![li] =
                   WithLength(df_dict[li], get_audio_length(df_dict[li].audio_file))]
            /\ li' = li + 1
            /\ UNCHANGED lpc
       ELSE /\ lpc' = "card_write"
            /\ UNCHANGED <<df_dict, li>>
    /\ UNCHANGED <<samples, tables, card, lresult>>
    /\ LtFrame

RECURSIVE SumLen(_)
SumLen(df) == IF df = <<>> THEN 0 ELSE df[1].audio_len + SumLen(Tail(df))

\* the figures of the dataset card, lines 55-97
CardOf(df) ==
    [num_samples |-> Len(df),
     num_corrupt_files |-> Len(SelectSeq(df, LAMBDA r : r.audio_len = -1000)),
     total_duration |-> SumLen(df),
     speakers |-> IF "speaker" \in DOMAIN df[1]
                  THEN Cardinality({df[i].speaker : i \in DOMAIN df})
                  ELSE 1,
     sample_rates |-> {df[i].sample_rate : i \in DOMAIN df}]

\* mutant: every row counts as corrupt
WriteCardCountsAll ==
    /\ lpc = "card_write"
    /\ card' = Some([CardOf(df_dict) EXCEPT !.num_corrupt_files = Len(df_dict)])
    /\ LtFinish(<<"returned", None>>)
    /\ UNCHANGED <<samples, li, tables, df_dict>>
    /\ LtFrame

\* lines 41-43 and 55-106: the card is written
WriteCard ==
    /\ lpc = "card_write"
    /\ card' = Some(CardOf(df_dict))
    /\ LtFinish(<<"returned", None>>)
    /\ UNCHANGED <<samples, li, tables, df_dict>>
    /\ LtFrame

LtNext ==
    \/ GetSpeakerAndGender
    \/ CalculateSnr
    \/ WriteTables
    \/ ReadMetadata
    \/ AudioLength
    \/ WriteCard

(***************************************************************************)
(* LjSpeech._preprocess and Mailabs._preprocess, run twice on one dataset  *)
(* directory.  A csv file is the sequence of its lines, a line the         *)
(* sequence of its fields; to_csv writes the column names as first line,   *)
(* read_csv(header=None) takes every line for a row.                       *)
(***************************************************************************)
\* most lines of the metadata.csv that comes with the dataset
MaxRows == 2

Formatters == {"LjSpeech", "Mailabs"}

ClipIds == { <<"i", "1">>, <<"t", "r", "a", "i", "n", "2">> }

\* self.path, and the metadata.csv of a M-AILABS book below it
RootPath == <<"r">>
BookCsvPath == <<"r", "/", "e", "n", "/", "b", "y", "_", "b", "o", "o", "k", "/", "f", "e", "m", "a", "l", "e", "/", "j", "u", "d", "y", "/", "b", "1", "/", "m", "e", "t", "a", "d", "a", "t", "a", ".", "c", "s", "v">>

\* the lines of a metadata.csv as distributed: id|text|normalized text
ShippedLines ==
    {[i \in DOMAIN ids |-> <<ids[i], "t", "n">>] : ids \in SeqsNoRepeat(ClipIds, MaxRows)}

\* os.path.join(root, "wavs", f"{x}.wav")
WavPath(root, x) == path_join(path_join(root, <<"w", "a", "v", "s">>), x \o <<".", "w", "a", "v">>)

LjPaths == {WavPath(r, x) : r \in {RootPath, dirname(BookCsvPath)}, x \in ClipIds}

LjColumns == <<"audio_file", "text", "text_normalized", "snr">>

MailabsColumns ==
    <<"audio_file", "text", "text_normalized", "speaker", "lang", "gender", "book", "snr">>

\* s.split("/")[-k]
SegmentFromEnd(path, k) ==
    LET parts == split(path, sep)
    IN parts[Len(parts) - k + 1]

\* the frame read with header=None and the three names of lines 41-42 or
\* 255-256; "ValueError" when the lines do not have three fields
ReadShipped(lines) ==
    IF lines = <<>> THEN <<"EmptyDataError">>
    ELSE IF Len(lines[1]) # 3 THEN <<"ValueError">>
    ELSE <<"ok", lines>>

\* lines 42-45
LjRows(lines) ==
    [i \in DOMAIN lines |->
        [audio_file |-> WavPath(RootPath, lines[i][1]),
         text |-> lines[i][2],
         text_normalized |-> lines[i][3]]]

\* _reformat_metadata, lines 253-263
reformat_metadata(metadata_path, lines) ==
    [i \in DOMAIN lines |->
        [audio_file |-> WavPath(dirname(metadata_path), lines[i][1]),
         text |-> lines[i][2],
         text_normalized |-> lines[i][3],
         speaker |-> SegmentFromEnd(metadata_path, 3),
         lang |-> SegmentFromEnd(metadata_path, 6),
         gender |-> SegmentFromEnd(metadata_path, 4),
         book |-> SegmentFromEnd(metadata_path, 2)]]

\* df.to_csv(..., index=False, sep="|")
to_csv(rows, columns) ==
    <<columns>> \o [i \in DOMAIN rows |-> [c \in DOMAIN columns |-> rows[i][columns[c]]]]

\* pd.read_csv(..., sep="|").to_dict(orient="records")
read_csv(lines) ==
    LET columns == lines[1]
    IN [i \in 1..(Len(lines) - 1) |->
           [k \in Range(columns) |->
               lines[i + 1][CHOOSE c \in DOMAIN columns : columns[c] = k]]]

\* get_audio_lengths, lines 35-43
get_audio_lengths(lines) ==
    LET df == read_csv(lines)
    IN [i \in DOMAIN df |-> WithLength(df[i], get_audio_length(df[i].audio_file))]

LjInit ==
    /\ formatter \in Formatters
    /\ \E lines \in ShippedLines :
          IF formatter = "LjSpeech"
          THEN book_csv = None /\ root_csv = Some(lines)
          ELSE book_csv = Some(lines) /\ root_csv = None
    /\ corrupt \in SubsetsUpTo(LjPaths, MaxCorrupt)
    /\ snr_raises \in SubsetsUpTo(LjPaths, MaxSnrRaises)
    /\ jrows = <<>>
    /\ jpc = "read"
    /\ jrun = 1
    /\ jcard = None
    /\ jresult = <<>>
    /\ jfirst = None

LjFinish(r) ==
    /\ jpc' = "done"
    /\ jresult' = r

LjFrame == UNCHANGED <<formatter, book_csv, jrun, jfirst, ltVars, ljOthers>>

\* LjSpeech lines 40-45; Mailabs lines 266-270, where the recursive glob
\* finds self.path/metadata.csv too, once it exists
PreRead ==
    /\ jpc = "read"
    /\ LET found == IF formatter = "LjSpeech" THEN <<root_csv[1]>>
                    ELSE IF root_csv = None THEN <<book_csv[1]>>
                    ELSE <<book_csv[1], root_csv[1]>>
           bad == {i \in DOMAIN found : ReadShipped(found[i])[1] # "ok"}
       IN IF bad # {}
          THEN /\ LjFinish(ReadShipped(found[CHOOSE i \in bad : TRUE]))
               /\ UNCHANGED jrows
          ELSE /\ jrows' = IF formatter = "LjSpeech" THEN LjRows(found[1])
                           ELSE reformat_metadata(BookCsvPath, found[1])
               /\ jpc' = "snr"
               /\ UNCHANGED jresult
    /\ UNCHANGED <<root_csv, jcard>>
    /\ LjFrame

\* LjSpeech lines 52-54: an exception of wada_snr leaves _preprocess;
\* Mailabs lines 278-284: it gives snr = -1.0
PreSnr ==
    /\ jpc = "snr"
    /\ IF formatter = "LjSpeech" /\ \E i \in DOMAIN jrows : jrows[i].audio_file \in snr_raises
       THEN /\ LjFinish(<<"SnrError">>)
            /\ UNCHANGED jrows
       ELSE /\ jrows' = [i \in DOMAIN jrows |->
                            [snr |-> IF jrows[i].audio_file \in snr_raises
                                     THEN -1
                                     ELSE SnrOf(jrows[i].audio_file)] @@ jrows[i]]
            /\ jpc' = "write"
            /\ UNCHANGED jresult
    /\ UNCHANGED <<root_csv, jcard>>
    /\ LjFrame

\* LjSpeech lines 56-57, Mailabs lines 286-288
PreWrite ==
    /\ jpc = "write"
    /\ root_csv' = Some(to_csv(jrows, IF formatter = "LjSpeech" THEN LjColumns
                                                                ELSE MailabsColumns))
    /\ jpc' = "card"
    /\ UNCHANGED <<jrows, jcard, jresult>>
    /\ LjFrame

\* LjSpeech lines 59-66, Mailabs lines 290-296: create_dataset_information
PreCard ==
    /\ jpc = "card"
    /\ jcard' = Some(CardOf(get_audio_lengths(root_csv[1])))
    /\ LjFinish(<<"returned", None>>)
    /\ UNCHANGED <<root_csv, jrows>>
    /\ LjFrame

\* the formatter is constructed again on the same directory
PreAgain ==
    /\ jpc = "done"
    /\ jrun = 1
    /\ jrun' = 2
    /\ jfirst' = Some([root_csv |-> root_csv, card |-> jcard, result |-> jresult])
    /\ jrows' = <<>>
    /\ jpc' = "read"
    /\ jresult' = <<>>
    /\ UNCHANGED <<formatter, book_csv, root_csv, jcard, ltVars, ljOthers>>

LjNext ==
    \/ PreRead
    \/ PreSnr
    \/ PreWrite
    \/ PreCard
    \/ PreAgain

\* C20: a second run of a formatter's _preprocess on the same directory
\* succeeds and leaves the metadata table and the card at the same paths
\* with the content the first run gave them.
C20_Original ==
    (jrun = 2 /\ jpc = "done" /\ jfirst[1].result = <<"returned", None>>) =>
        /\ jresult = <<"returned", None>>
        /\ root_csv = jfirst[1].root_csv
        /\ jcard = jfirst[1].card

\* the failing case of C20: the second run raises on reading the table the
\* first run wrote
C20_Reached ==
    /\ jrun = 2
    /\ jpc = "done"
    /\ jfirst[1].result = <<"returned", None>>
    /\ jresult = <<"ValueError">>
    /\ root_csv = jfirst[1].root_csv
    /\ Len(root_csv[1]) > 1

\* what the code does instead: after a first run that returned, the second
\* run always raises and writes nothing
SecondRunRaises ==
    (jrun = 2 /\ jfirst[1].result = <<"returned", None>>) =>
        /\ root_csv = jfirst[1].root_csv
        /\ jcard = jfirst[1].card
        /\ jpc \in {"read", "done"}
        /\ jpc = "done" => jresult = <<"ValueError">>

(***************************************************************************)
(* get_timestamp_from_milliseconds.  The argument is a non-negative int    *)
(* (Tedlium.seconds_to_milliseconds returns int(seconds * 1000)); for such *)
(* a and a positive b, int(a / b) is the integer quotient.                 *)
(***************************************************************************)
\* most hours of an argument
MaxHours == 100

MsInputs ==
    {h * 3600000 + m * 60000 + s * 1000 + k :
        h \in {0, 1, 10, 99, MaxHours}, m \in {0, 1, 59}, s \in {0, 9, 59},
        k \in {0, 5, 99, 999}}

DigitChars == <<"0", "1", "2", "3", "4", "5", "6", "7", "8", "9">>

\* str(n), n >= 0
RECURSIVE str(_)
str(n) ==
    IF n < 10 THEN <<DigitChars[n + 1]>>
    ELSE str(n \div 10) \o <<DigitChars[(n % 10) + 1]>>

\* s.zfill(width)
RECURSIVE zfill(_, _)
zfill(s, width) == IF Len(s) >= width THEN s ELSE zfill(<<"0">> \o s, width)

TsInit ==
    /\ ts_in \in MsInputs
    /\ milliseconds = ts_in
    /\ hours = 0
    /\ minutes = 0
    /\ seconds = 0
    /\ tpc = "hours"
    /\ timestamp = <<>>

\* lines 54-55
TsHours ==
    /\ tpc = "hours"
    /\ hours' = milliseconds \div (60 * 60 * 1000)
    /\ milliseconds' = milliseconds - hours' * (60 * 60 * 1000)
    /\ tpc' = "minutes"
    /\ UNCHANGED <<ts_in, minutes, seconds, timestamp, tsOthers>>

\* lines 56-57
TsMinutes ==
    /\ tpc = "minutes"
    /\ minutes' = milliseconds \div (60 * 1000)
    /\ milliseconds' = milliseconds - minutes' * (60 * 1000)
    /\ tpc' = "seconds"
    /\ UNCHANGED <<ts_in, hours, seconds, timestamp, tsOthers>>

\* lines 58-59
TsSeconds ==
    /\ tpc = "seconds"
    /\ seconds' = milliseconds \div 1000
    /\ milliseconds' = milliseconds - seconds' * 1000
    /\ tpc' = "format"
    /\ UNCHANGED <<ts_in, hours, minutes, timestamp, tsOthers>>

\* mutant: the milliseconds are not padded
TsFormatUnpadded ==
    /\ tpc = "format"
    /\ timestamp' = zfill(str(hours), 2) \o <<":">> \o zfill(str(minutes), 2) \o <<":">>
                       \o zfill(str(seconds), 2) \o <<".">> \o str(milliseconds)
    /\ tpc' = "done"
    /\ UNCHANGED <<ts_in, milliseconds, hours, minutes, seconds, tsOthers>>

\* lines 60-65
TsFormat ==
    /\ tpc = "format"
    /\ timestamp' = zfill(str(hours), 2) \o <<":">> \o zfill(str(minutes), 2) \o <<":">>
                       \o zfill(str(seconds), 2) \o <<".">> \o zfill(str(milliseconds), 3)
    /\ tpc' = "done"
    /\ UNCHANGED <<ts_in, milliseconds, hours, minutes, seconds, tsOthers>>

TsNext ==
    \/ TsHours
    \/ TsMinutes
    \/ TsSeconds
    \/ TsFormat

\* C22: for an argument below 100 hours the result is HH:MM:SS.mmm with
\* 2, 2, 2 and 3 digits, MM < 60, SS < 60, mmm < 1000, and
\* HH*3600000 + MM*60000 + SS*1000 + mmm is the argument.
C22_Timestamp ==
    (tpc = "done" /\ ts_in < 100 * 3600000) =>
        /\ Len(timestamp) = 12
        /\ timestamp[3] = ":" /\ timestamp[6] = ":" /\ timestamp[9] = "."
        /\ \A i \in {1, 2, 4, 5, 7, 8, 10, 11, 12} : timestamp[i] \in DOMAIN Digits
        /\ LET HH == ParseInt(SubSeq(timestamp, 1, 2))
               MM == ParseInt(SubSeq(timestamp, 4, 5))
               SS == ParseInt(SubSeq(timestamp, 7, 8))
               mmm == ParseInt(SubSeq(timestamp, 10, 12))
           IN /\ MM < 60
              /\ SS < 60
              /\ mmm < 1000
              /\ HH * 3600000 + MM * 60000 + SS * 1000 + mmm = ts_in

C22_Witness ==
    /\ tpc = "done"
    /\ ts_in = 99 * 3600000 + 59 * 60000 + 9 * 1000 + 5
    /\ timestamp = <<"9", "9", ":", "5", "9", ":", "0", "9", ".", "0", "0", "5">>

\* from 100 hours on the hours take three digits
TimestampOverflows ==
    (tpc = "done" /\ ts_in >= 100 * 3600000) => Len(timestamp) > 12

(***************************************************************************)
(* downloaders.download_and_extract(url, out_path): download_url with its  *)
(* defaults (filename None, no hash, resume False), then extract_archive   *)
(* of out_path joined with the basename of the URL.  The server's answer   *)
(* is the archive it holds and the filename of its Content-Disposition     *)
(* header, if it sends one.                                                *)
(***************************************************************************)
Urls ==
    {<<"h", ":", "/", "/", "z", "/", "a", ".", "t">>,
     <<"h", ":", "/", "/", "z", "/", "a", ".", "t", "?", "d", "=", "1">>}

ServedFilenames == {None, Some(<<>>), Some(<<"a", ".", "t">>)}

OutPaths == {DataEngineHome, <<"/", "d">>}

\* an archive file: which reader opens it and the names of its members
Payloads ==
    {[kind |-> k, names |-> n] : k \in {"tar", "zip"}, n \in SeqsUpTo(Names, 1)}
        \cup {[kind |-> "other", names |-> <<>>]}

\* a file that was in out_path before the first call
StalePayload == [kind |-> "zip", names |-> <<<<"y">>>>]

\* the paths download_url and download_and_extract can compute
FolderPaths ==
    {path_join(o, n) : o \in OutPaths,
                       n \in {basename(u) : u \in Urls}
                                \cup {f[1] : f \in ServedFilenames \ {None}}}

FeInit ==
    /\ url \in Urls
    /\ out_path \in OutPaths
    /\ served_filename \in ServedFilenames
    /\ payload \in Payloads
    /\ \E stale \in BOOLEAN :
          folder = [p \in FolderPaths |->
                      IF stale /\ p = path_join(out_path, basename(url))
                      THEN Some(StalePayload) ELSE None]
    /\ unpacked = {}
    \* the caller calls download_and_extract or download_kaggle_dataset
    /\ fpc \in {"head", "kaggle"}
    /\ fpc = "kaggle" => payload.kind = "zip"
    /\ filepath = None
    /\ archive = None
    /\ call = 1
    /\ fresult = <<>>
    /\ fresult1 = <<>>

FeFrame == UNCHANGED <<url, out_path, served_filename, payload, call, fresult1, feOthers>>

FeFinish(r) ==
    /\ fpc' = "done"
    /\ fresult' = r

\* filename or req_info.get_filename() or os.path.basename(url)
DetectFilename ==
    IF served_filename # None /\ served_filename[1] # <<>>
    THEN served_filename[1] ELSE basename(url)

\* download_url, lines 100-114: the name of the file and, with resume
\* False, the refusal to replace it
FetchHead ==
    /\ fpc = "head"
    /\ LET path == path_join(out_path, DetectFilename)
       IN /\ filepath' = Some(path)
          /\ IF folder[path] # None
             THEN FeFinish(<<"RuntimeError">>)
             ELSE /\ fpc' = "write"
                  /\ UNCHANGED fresult
    /\ UNCHANGED <<folder, unpacked, archive>>
    /\ FeFrame

\* download_url, lines 122-124
FetchWrite ==
    /\ fpc = "write"
    /\ folder' = [folder EXCEPT ![filepath[1]] = Some(payload)]
    /\ fpc' = "extract"
    /\ UNCHANGED <<unpacked, filepath, archive, fresult>>
    /\ FeFrame

\* what extract_archive(archive_path) does to the tree and how it ends
ExtractArchive(archive_path) ==
    LET dest == dirname(archive_path)
        a == folder[archive_path]
    IN IF a = None THEN [wrote |-> {}, result |-> <<"FileNotFoundError">>]
       ELSE IF a[1].kind = "other" THEN [wrote |-> {}, result |-> <<"NotImplementedError">>]
       ELSE [wrote |-> {path_join(dest, a[1].names[i]) : i \in DOMAIN a[1].names},
             result |-> IF a[1].names = <<>> THEN <<"IndexError">>
                        ELSE IF a[1].kind = "tar"
                        THEN \* line 189: files holds the joined paths
                             get_the_directory(dest, path_join(dest, a[1].names[1]))
                        ELSE \* line 204: files is zfile.namelist()
                             get_the_directory(dest, a[1].names[1])]

\* download_and_extract, lines 20-23
FetchExtract ==
    /\ fpc = "extract"
    /\ LET archive_path == path_join(out_path, basename(url))
           r == ExtractArchive(archive_path)
       IN /\ archive' = Some(archive_path)
          /\ unpacked' = unpacked \cup r.wrote
          /\ FeFinish(r.result)
    /\ UNCHANGED <<folder, filepath>>
    /\ FeFrame

\* dataset_name of downloaders.download_tweb and download_vctk
KaggleNames == {<<"T", "W", "E", "B">>, <<"V", "C", "T", "K">>}

\* utils.download_kaggle_dataset, lines 219-228, with out_path as
\* output_path and payload as the dataset kaggle serves.  The import or
\* the authentication finds no package (propagates), the kaggle calls end
\* in OSError (caught, the function returns nothing), or
\* dataset_download_files(..., unzip=True) leaves the files of the dataset
\* under data_path.
KaggleDownload ==
    /\ fpc = "kaggle"
    /\ \E dataset_name \in KaggleNames,
          outcome \in {"unzipped", "OSError", "ModuleNotFoundError"} :
          LET data_path == path_join(out_path, dataset_name)
              dataset == {path_join(data_path, payload.names[i]) : i \in DOMAIN payload.names}
          IN CASE outcome = "unzipped" ->
                    /\ unpacked' = unpacked \cup dataset
                    /\ fresult' = <<"returned", Some(data_path)>>
               [] outcome = "OSError" ->
                    /\ \E some \in SUBSET dataset : unpacked' = unpacked \cup some
                    /\ fresult' = <<"returned", None>>
               [] outcome = "ModuleNotFoundError" ->
                    /\ unpacked' = unpacked
                    /\ fresult' = <<"ModuleNotFoundError">>
    /\ fpc' = "kaggle_done"
    /\ UNCHANGED <<folder, filepath, archive>>
    /\ FeFrame

\* the caller calls download_and_extract again, same url and out_path
FetchAgain ==
    /\ fpc = "done"
    /\ call = 1
    /\ call' = 2
    /\ fresult1' = fresult
    /\ fresult' = <<>>
    /\ fpc' = "head"
    /\ filepath' = None
    /\ archive' = None
    /\ UNCHANGED <<url, out_path, served_filename, payload, folder, unpacked, feOthers>>

FeNext ==
    \/ FetchHead
    \/ FetchWrite
    \/ FetchExtract
    \/ KaggleDownload
    \/ FetchAgain

\* C23: after a call that fetched and unpacked, the archive file is gone
\* from out_path and the next call of the same url and out_path is not
\* refused because of it.
C23_Original ==
    (call = 2 /\ fresult1 # <<>> /\ fresult1[1] = "returned") =>
        /\ folder[path_join(out_path, basename(url))] = None
        /\ fpc = "done" => fresult # <<"RuntimeError">>

C23_Reached ==
    /\ call = 2
    /\ fresult1 # <<>> /\ fresult1[1] = "returned"
    /\ fpc = "done"
    /\ fresult = <<"RuntimeError">>
    /\ archive = None
    /\ folder[path_join(out_path, basename(url))] = Some(payload)

\* the file download_url wrote stays, and refuses every later call
SecondFetchRefused ==
    (call = 2 /\ fresult1 # <<"RuntimeError">>) =>
        /\ folder[path_join(out_path, DetectFilename)] # None
        /\ fpc = "done" => fresult = <<"RuntimeError">>

\* C27: the path handed to extract_archive is the path download_url wrote.
C27_Original == (archive # None) => archive = filepath

C27_Reached ==
    /\ call = 1
    /\ fpc = "done"
    /\ served_filename = Some(<<"a", ".", "t">>)
    /\ url = <<"h", ":", "/", "/", "z", "/", "a", ".", "t", "?", "d", "=", "1">>
    /\ filepath = Some(path_join(out_path, <<"a", ".", "t">>))
    /\ archive = Some(path_join(out_path, <<"a", ".", "t", "?", "d", "=", "1">>))
    /\ fresult = <<"FileNotFoundError">>

\* without a filename from the server the two paths are the same
SamePathWithoutServedFilename ==
    (archive # None /\ (served_filename = None \/ served_filename = Some(<<>>))) =>
        archive = filepath

(***************************************************************************)
(* The constructors of LibriTts and Mailabs up to the call of _preprocess. *)
(* The URLs of both maps have no query string and the archives are taken   *)
(* to arrive and to open; every archive unpacks top_member first.          *)
(* async_download_urls is given a map that is not empty, so the call does  *)
(* not return: no unit runs and the loop of utils.py lines 254-256 polls   *)
(* for ever (AsyncPoll).                                                   *)
(***************************************************************************)
FormatterClasses == {"LibriTts", "Mailabs"}

HomeDirs == {<<"/", "h", "o", "m", "e", "/", "l", "o", "g", "a", "n">>, <<"/", "r">>}

PathArgs == {None, Some(DataEngineHome), Some(DataEngineHome \o <<"/", "m">>), Some(<<"/", "d">>)}

TopMembers == {<<"L", "/", "a">>, <<"b">>}

\* os.path.expanduser('~/.local/share/dataengine')
DefaultOutPath ==
    user_home \o <<"/", ".", "l", "o", "c", "a", "l", "/", "s", "h", "a", "r", "e", "/",
                   "d", "a", "t", "a", "e", "n", "g", "i", "n", "e">>

\* os.path.expanduser('~/.local/share/dataengine/mailabs')
DefaultMailabsPath == DefaultOutPath \o <<"/", "m", "a", "i", "l", "a", "b", "s">>

FmInit ==
    /\ cls \in FormatterClasses
    /\ path_arg \in PathArgs
    /\ download \in BOOLEAN
    /\ selection \in {"all", "one"}
    /\ async_download \in BOOLEAN
    /\ user_home \in HomeDirs
    /\ top_member \in TopMembers
    /\ self_path = None
    /\ extracted = {}
    /\ kpc = "init"
    /\ preprocess_path = <<>>
    /\ kresult = <<>>

FmFrame ==
    UNCHANGED <<cls, path_arg, download, selection, async_download, user_home, top_member,
                fmOthers>>

\* downloaders.download_and_extract(url, out_path): the file it unpacks
\* first and what it returns
DownloadAndExtract(out) ==
    LET dir == IF out = None THEN DefaultOutPath ELSE out[1]
        first_file == path_join(dir, top_member)
    IN [wrote |-> {first_file}, result |-> get_the_directory(dir, first_file)]

\* formatters.py lines 80-91 and 204-213: self.path = path, the assert,
\* and the branch on download
FormatterInit ==
    /\ kpc = "init"
    /\ self_path' = path_arg
    /\ IF path_arg = None /\ ~download
       THEN kpc' = "done" /\ kresult' = <<"AssertionError">>
       ELSE kpc' = (IF download THEN "download" ELSE "preprocess") /\ UNCHANGED kresult
    /\ UNCHANGED <<extracted, preprocess_path>>
    /\ FmFrame

\* the path the download step passes on: Mailabs replaces None, lines
\* 225-226
DownloadPath ==
    IF cls = "Mailabs" /\ self_path = None THEN Some(DefaultMailabsPath) ELSE self_path

\* lines 132-138 and 243-249: one call of download_and_extract, whose
\* value is returned, in the loop over all entries as for one entry
FormatterDownload ==
    /\ kpc = "download"
    /\ ~(selection = "all" /\ async_download)
    /\ LET r == DownloadAndExtract(DownloadPath)
       IN /\ extracted' = extracted \cup r.wrote
          /\ IF r.result[1] = "returned"
             THEN /\ self_path' = Some(r.result[2])
                  /\ kpc' = "preprocess"
                  /\ UNCHANGED kresult
             ELSE /\ self_path' = DownloadPath
                  /\ kpc' = "done"
                  /\ kresult' = r.result
    /\ UNCHANGED preprocess_path
    /\ FmFrame

\* lines 129-131 and 240-242: async_download_urls(subset_dict, self.path),
\* whose map has seven entries or more; the caller stays in the loop of
\* utils.py lines 254-256, with self.path as the download step found or
\* set it
FormatterDownloadAsync ==
    /\ kpc = "download"
    /\ selection = "all" /\ async_download
    /\ self_path' = DownloadPath
    /\ kpc' = "polling"
    /\ UNCHANGED <<extracted, preprocess_path, kresult>>
    /\ FmFrame

\* lines 93 and 215: self._preprocess()
FormatterPreprocess ==
    /\ kpc = "preprocess"
    /\ preprocess_path' = <<self_path>>
    /\ kpc' = "done"
    /\ UNCHANGED <<self_path, extracted, kresult>>
    /\ FmFrame

FmNext ==
    \/ FormatterInit
    \/ FormatterDownload
    \/ FormatterDownloadAsync
    \/ FormatterPreprocess

\* the path is a directory and the files in F are below it
Holds(d, F) == d # None /\ F # {} /\ \A f \in F : startswith(f, d[1] \o <<sep>>)

AsyncNeverPreprocesses ==
    (download /\ selection = "all" /\ async_download) => (preprocess_path = <<>> /\ kpc # "done")

\* with one call of download_and_extract, of an archive whose first file
\* is inside a directory, the path is the one the call returned and holds
\* what the call extracted
OneCallGivesItsDirectory ==
    (/\ download /\ preprocess_path # <<>>
     /\ ~(selection = "all" /\ async_download)
     /\ rfind1(top_member, sep) > 0) =>
        Holds(preprocess_path[1], extracted)

\* the download step after which the constructor goes on is the one under
\* the directory of line 29 of utils.py
OneCallElsewhereRaises ==
    (/\ download /\ kpc = "done"
     /\ ~(selection = "all" /\ async_download)
     /\ ~startswith(IF DownloadPath = None THEN DefaultOutPath ELSE DownloadPath[1], DataEngineHome)) =>
        kresult = <<"ValueError">> /\ preprocess_path = <<>>

(***************************************************************************)
(* search_for_text_files.  Tedlium._preprocess calls it with               *)
(* text_file_extension "stm" and read_text_file False; the model also      *)
(* gives it an extension with a regular-expression character and           *)
(* read_text_file True.  A sample is a dict, here a function from its      *)
(* keys; the list matched_samples holds the sample objects themselves,     *)
(* here their indices.  A file under the root has a name and a content;    *)
(* the content None is one that is not UTF-8.                              *)
(***************************************************************************)
\* most samples and most files under the root
MaxSearchSamples == 2
MaxWalk == 3

SearchAudio ==
    {<<"r", "/", "d", "/", "x", ".", "s", "p", "h">>,
     <<"r", "/", "e", "/", "x", ".", "s", "p", "h">>,
     <<"r", "/", "d", "/", "y", ".", "s", "p", "h">>,
     <<"r", "/", "d", "/", "x", ".", "y", ".", "s", "p", "h">>}

\* the argument text_file_extension: the one of Tedlium, and one in which
\* the "." stands for any character
Extensions == {<<"s", "t", "m">>, <<"s", ".", "m">>}

WalkRoot == <<"r">>
WalkSub == <<"r", "/", "s">>

WalkFiles ==
    {[subdir |-> WalkRoot, file |-> <<"x", ".", "s", "t", "m">>, text |-> Some(<<"a", "\n">>)],
     [subdir |-> WalkSub, file |-> <<"x", ".", "s", "t", "m">>, text |-> Some(<<"b">>)],
     [subdir |-> WalkRoot, file |-> <<"x", ".", "y", ".", "s", "t", "m">>, text |-> Some(<<"c">>)],
     [subdir |-> WalkSub, file |-> <<"x", "s", "t", "m">>, text |-> Some(<<"d">>)],
     [subdir |-> WalkRoot, file |-> <<"x", ".", "s", "t", "m", "\n">>,
      text |-> Some(<<"e", "\r", "\n", "f">>)],
     [subdir |-> WalkSub, file |-> <<"x", ".", "s", "a", "m">>, text |-> None]}

\* os.walk is top-down: the files of the root come before those of r/s
Walks ==
    {w \in SeqsNoRepeat(WalkFiles, MaxWalk) :
        \A a, b \in DOMAIN w : (a < b /\ w[a].subdir = WalkSub) => w[b].subdir = WalkSub}

\* line 35: the pattern '^' + re.escape(base_name) + '\.' + extension + '$'
\* as a sequence of items: <<c>> is the character c, <<>> any character
\* but the newline.  re.escape makes every character of the base name
\* stand for itself; the extension is not escaped, so its "." is the
\* pattern for any character.
Pattern(base, ext) ==
    [i \in 1..Len(base) |-> <<base[i]>>] \o << <<".">> >>
        \o [i \in 1..Len(ext) |-> IF ext[i] = "." THEN <<>> ELSE <<ext[i]>>]

\* line 38, base_name_regex.match(file): the items match the name from its
\* start, character by character; '$' matches at the end of the name and
\* before a newline that ends it
RECURSIVE RegexMatches(_, _)
RegexMatches(pattern, name) ==
    IF pattern = <<>>
    THEN name = <<>> \/ name = <<"\n">>
    ELSE /\ name # <<>>
         /\ IF Head(pattern) = <<>> THEN Head(name) # "\n" ELSE Head(name) = Head(pattern)[1]
         /\ RegexMatches(Tail(pattern), Tail(name))

SrInit ==
    /\ audio_samples \in {[i \in DOMAIN q |-> [audio_file |-> q[i]]] :
                              q \in SeqsUpTo(SearchAudio, MaxSearchSamples)}
    /\ walk \in Walks
    /\ text_file_extension \in Extensions
    /\ read_text_file \in BOOLEAN
    /\ si_sample = 1
    /\ walk_idx = 1
    /\ matched_samples = <<>>
    /\ rpc = "loop"
    /\ returned_samples = {}

SrFrame == UNCHANGED <<walk, text_file_extension, read_text_file, returned_samples, srOthers>>

\* lines 40-43: the key a match sets besides text_file
TextKey(f) ==
    IF read_text_file THEN [text |-> RemoveNewlines(TextRead(f.text[1]))] ELSE <<>>

\* mutant: a sample that has a text_file keeps it
SearchVisitKeepsFirst ==
    /\ rpc = "loop"
    /\ si_sample <= Len(audio_samples)
    /\ LET sample == audio_samples[si_sample]
           base == splitext_root(sample.audio_file)
       IN IF walk_idx > Len(walk)
          THEN /\ si_sample' = si_sample + 1
               /\ walk_idx' = 1
               /\ UNCHANGED <<audio_samples, matched_samples, rpc>>
          ELSE /\ walk_idx' = walk_idx + 1
               /\ UNCHANGED si_sample
               /\ IF ~RegexMatches(Pattern(base, text_file_extension), walk[walk_idx].file)
                  THEN UNCHANGED <<audio_samples, matched_samples, rpc>>
                  ELSE IF read_text_file /\ walk[walk_idx].text = None
                  THEN /\ rpc' = "UnicodeDecodeError"
                       /\ UNCHANGED <<audio_samples, matched_samples>>
                  ELSE /\ audio_samples' =
                             [audio_samples EXCEPT ![si_sample] =
                                 IF "text_file" \in DOMAIN sample THEN sample
                                 ELSE [text_file |-> path_join(walk[walk_idx].subdir,
                                                               walk[walk_idx].file)]
                                          @@ TextKey(walk[walk_idx]) @@ sample]
                       /\ matched_samples' = Append(matched_samples, si_sample)
                       /\ UNCHANGED rpc
    /\ SrFrame

\* lines 31-46: the next file of the walk for the sample at hand, or the
\* next sample when the walk is over.  A file that matches is read first
\* when read_text_file is True (open and read raise for a content that is
\* not UTF-8), then the sample gets its text_file and is appended.
SearchVisit ==
    /\ rpc = "loop"
    /\ si_sample <= Len(audio_samples)
    /\ LET sample == audio_samples[si_sample]
           base == splitext_root(sample.audio_file)
       IN IF walk_idx > Len(walk)
          THEN /\ si_sample' = si_sample + 1
               /\ walk_idx' = 1
               /\ UNCHANGED <<audio_samples, matched_samples, rpc>>
          ELSE /\ walk_idx' = walk_idx + 1
               /\ UNCHANGED si_sample
               /\ IF ~RegexMatches(Pattern(base, text_file_extension), walk[walk_idx].file)
                  THEN UNCHANGED <<audio_samples, matched_samples, rpc>>
                  ELSE IF read_text_file /\ walk[walk_idx].text = None
                  THEN /\ rpc' = "UnicodeDecodeError"
                       /\ UNCHANGED <<audio_samples, matched_samples>>
                  ELSE /\ audio_samples' =
                             [audio_samples EXCEPT ![si_sample] =
                                 [text_file |-> path_join(walk[walk_idx].subdir,
                                                          walk[walk_idx].file)]
                                     @@ TextKey(walk[walk_idx])
                                     @@ [k \in DOMAIN sample \ {"text_file", "text"} |-> sample[k]]]
                       /\ matched_samples' = Append(matched_samples, si_sample)
                       /\ UNCHANGED rpc
    /\ SrFrame

\* lines 47-50: the set of the dicts' item sets, and a dict of each
SearchReturn ==
    /\ rpc = "loop"
    /\ si_sample > Len(audio_samples)
    /\ returned_samples' = {audio_samples[matched_samples[k]] : k \in DOMAIN matched_samples}
    /\ rpc' = "done"
    /\ UNCHANGED <<audio_samples, walk, text_file_extension, read_text_file, si_sample,
                   walk_idx, matched_samples, srOthers>>

SrNext ==
    \/ SearchVisit
    \/ SearchReturn

\* the names the extension stands for: itself, or with every character of
\* a file name but the newline in the place of its "."
NameChars == UNION {Range(f.file) : f \in WalkFiles}

ExtensionWords ==
    {w \in [1..Len(text_file_extension) -> NameChars] :
        \A i \in 1..Len(text_file_extension) :
            IF text_file_extension[i] = "." THEN w[i] # "\n" ELSE w[i] = text_file_extension[i]}

\* the positions in the walk of the files named after the audio file a:
\* its base name, a dot and the extension, with or without a newline at
\* the end
MatchesOf(a) ==
    {k \in DOMAIN walk :
        \E w \in ExtensionWords, nl \in {<<>>, <<"\n">>} :
            walk[k].file = splitext_root(a) \o <<".">> \o w \o nl}

Max(S) == CHOOSE m \in S : \A n \in S : n <= m

InputAudio == {audio_samples[i].audio_file : i \in DOMAIN audio_samples}

\* the text of a file as line 42 leaves it: without its line ends
Transcript(f) == SelectSeq(f.text[1], LAMBDA c : c \notin {"\n", "\r"})

\* C28: the result has one entry at most for each audio file of the
\* input, with the last matching file of the walk as text_file (and its
\* content as text, if read); every entry is for an audio file of the
\* input, and an audio file without a matching file has no entry.
C28_SearchResult ==
    (rpc = "done") =>
        /\ \A e1, e2 \in returned_samples : e1.audio_file = e2.audio_file => e1 = e2
        /\ \A e \in returned_samples :
              /\ e.audio_file \in InputAudio
              /\ MatchesOf(e.audio_file) # {}
              /\ "text_file" \in DOMAIN e
              /\ LET last == walk[Max(MatchesOf(e.audio_file))]
                 IN /\ e.text_file = path_join(last.subdir, last.file)
                    /\ read_text_file => e.text = Transcript(last)
        /\ \A a \in InputAudio :
              MatchesOf(a) = {} => \A e \in returned_samples : e.audio_file # a

\* two samples, the first with two matching files of which the last has a
\* name that ends in a newline, the second with none
C28_Witness ==
    /\ rpc = "done"
    /\ read_text_file
    /\ Len(audio_samples) = 2
    /\ audio_samples[1].audio_file = <<"r", "/", "d", "/", "x", ".", "s", "p", "h">>
    /\ audio_samples[2].audio_file = <<"r", "/", "d", "/", "y", ".", "s", "p", "h">>
    /\ matched_samples = <<1, 1>>
    /\ returned_samples =
          {[audio_file |-> <<"r", "/", "d", "/", "x", ".", "s", "p", "h">>,
            text_file |-> <<"r", "/", "x", ".", "s", "t", "m", "\n">>,
            text |-> <<"e", "f">>]}

\* a matching file that cannot be read ends the call without a result
UnreadableEndsSearch ==
    (rpc = "UnicodeDecodeError") => (read_text_file /\ returned_samples = {})

(***************************************************************************)
(* Tedlium._preprocess from thread_map on.  A recording has a number of    *)
(* stamps (the lines of its transcript) and may raise: at 0 in             *)
(* convert_audio_file, at k in _process_stamp of stamp k (cut_audio), or   *)
(* nowhere (None).  A segment is <<recording, stamp>>.  The workers are    *)
(* threads, and thread_map returns their results in the order of the       *)
(* recordings once all have ended.  wada_snr raises for the segments of    *)
(* ted_snr_raises.                                                         *)
(***************************************************************************)
\* most recordings and most stamps of a recording
MaxRecordings == 2
MaxStamps == 2

Recordings ==
    {[stamps |-> n, raises_at |-> r] :
        n \in 0..MaxStamps, r \in {None} \cup {Some(k) : k \in 0..MaxStamps}}

Segments == (1..MaxRecordings) \X (1..MaxStamps)

TdInit ==
    /\ text_pairs \in {q \in SeqsUpTo(Recordings, MaxRecordings) :
                          \A i \in DOMAIN q :
                              q[i].raises_at = None \/ q[i].raises_at[1] <= q[i].stamps}
    /\ ted_snr_raises \in SubsetsUpTo(Segments, MaxSnrRaises)
    /\ snr_idx = 1
    /\ all_samples = [i \in DOMAIN text_pairs |-> <<>>]
    /\ collect_idx = 1
    /\ total_samples = <<>>
    /\ metadata_csv = None
    /\ ted_pc = "map"
    /\ ted_result = <<>>

\* _process_audio_and_text, lines 399-409: the list of the segments, or
\* None after the except branch
ProcessAudioAndText ==
    /\ ted_pc = "map"
    /\ \E i \in DOMAIN text_pairs :
          /\ all_samples[i] = <<>>
          /\ all_samples' =
                [all_samples EXCEPT ![i] =
                    IF text_pairs[i].raises_at = None
                    THEN <<"list", [k \in 1..text_pairs[i].stamps |-> <<i, k>>]>>
                    ELSE <<"None">>]
    /\ UNCHANGED <<text_pairs, ted_snr_raises, snr_idx, collect_idx, total_samples, metadata_csv, ted_pc,
                   ted_result, tdOthers>>

\* line 334: thread_map returns when every worker has returned
ThreadMapReturns ==
    /\ ted_pc = "map"
    /\ \A i \in DOMAIN text_pairs : all_samples[i] # <<>>
    /\ ted_pc' = "collect"
    /\ UNCHANGED <<text_pairs, ted_snr_raises, snr_idx, all_samples, collect_idx, total_samples,
                   metadata_csv, ted_result, tdOthers>>

\* lines 337-339: "for y in samples" of the next result; None is not
\* iterable
Collect ==
    /\ ted_pc = "collect"
    /\ collect_idx <= Len(all_samples)
    /\ IF all_samples[collect_idx] = <<"None">>
       THEN /\ ted_pc' = "done"
            /\ ted_result' = <<"TypeError">>
            /\ UNCHANGED <<collect_idx, total_samples>>
       ELSE /\ total_samples' = total_samples \o all_samples[collect_idx][2]
            /\ collect_idx' = collect_idx + 1
            /\ UNCHANGED <<ted_pc, ted_result>>
    /\ UNCHANGED <<text_pairs, ted_snr_raises, snr_idx, all_samples, metadata_csv, tdOthers>>

\* lines 342-343: row["snr"] = wada_snr(row["audio_file"]) for the next
\* row of total_samples; an exception of wada_snr leaves _preprocess
TedliumSnr ==
    /\ ted_pc = "collect"
    /\ collect_idx > Len(all_samples)
    /\ snr_idx <= Len(total_samples)
    /\ IF total_samples[snr_idx] \in ted_snr_raises
       THEN /\ ted_pc' = "done"
            /\ ted_result' = <<"SnrError">>
            /\ UNCHANGED snr_idx
       ELSE /\ snr_idx' = snr_idx + 1
            /\ UNCHANGED <<ted_pc, ted_result>>
    /\ UNCHANGED <<text_pairs, ted_snr_raises, all_samples, collect_idx, total_samples,
                   metadata_csv, tdOthers>>

\* lines 345-346: the rows of total_samples, each with its snr, written
\* as metadata.csv
WriteMetadata ==
    /\ ted_pc = "collect"
    /\ collect_idx > Len(all_samples)
    /\ snr_idx > Len(total_samples)
    /\ metadata_csv' = Some(total_samples)
    /\ ted_pc' = "done"
    /\ ted_result' = <<"written">>
    /\ UNCHANGED <<text_pairs, ted_snr_raises, snr_idx, all_samples, collect_idx, total_samples,
                   tdOthers>>

TdNext ==
    \/ ProcessAudioAndText
    \/ ThreadMapReturns
    \/ Collect
    \/ TedliumSnr
    \/ WriteMetadata

Raising == {i \in DOMAIN text_pairs : text_pairs[i].raises_at # None}

\* the segments of the recordings that do not raise
GoodSegments ==
    UNION {{<<i, k>> : k \in 1..text_pairs[i].stamps} : i \in DOMAIN text_pairs \ Raising}

\* C29: a recording that raises gives no segments, and the segments of
\* the others are collected and written to the metadata table.
C29_Original ==
    (ted_pc = "done") =>
        /\ metadata_csv # None
        /\ Range(metadata_csv[1]) = GoodSegments

C29_Reached ==
    /\ ted_pc = "done"
    /\ Len(text_pairs) = 2
    /\ text_pairs[1] = [stamps |-> 2, raises_at |-> None]
    /\ text_pairs[2] = [stamps |-> 2, raises_at |-> Some(2)]
    /\ all_samples[2] = <<"None">>
    /\ total_samples = <<<<1, 1>>, <<1, 2>>>>
    /\ ted_result = <<"TypeError">>
    /\ metadata_csv = None

\* one recording that raises ends _preprocess before anything is written
OneFailureStopsAll ==
    (ted_pc = "done") =>
        IF Raising # {}
        THEN ted_result = <<"TypeError">> /\ metadata_csv = None
        ELSE IF GoodSegments \cap ted_snr_raises # {}
        THEN ted_result = <<"SnrError">> /\ metadata_csv = None
        ELSE ted_result = <<"written">> /\ Range(metadata_csv[1]) = GoodSegments

(***************************************************************************)
(* Claims about enrichment and export.                                     *)
(***************************************************************************)
\* the rows of the full table, once it is written
MetadataRows == IF tables.metadata = None THEN <<>> ELSE tables.metadata[1]

\* C16: get_audio_lengths does not raise because of an unreadable audio
\* file: such a row gets audio_len = -1 and sample_rate = -1, every later
\* row is processed, and the result has one row per row of the table.
C16_CorruptGivesMinusOne ==
    /\ (lpc = "done" /\ df_dict # <<>>) => lresult = <<"returned", None>>
    /\ (lpc \in {"card_write", "done"} /\ df_dict # <<>>) =>
          /\ Len(df_dict) = Len(MetadataRows)
          /\ \A i \in DOMAIN df_dict :
                /\ df_dict[i].audio_file = MetadataRows[i].audio_file
                /\ df_dict[i].audio_file \in corrupt =>
                      (df_dict[i].audio_len = -1000 /\ df_dict[i].sample_rate = -1)
                /\ df_dict[i].audio_file \notin corrupt =>
                      <<df_dict[i].audio_len, df_dict[i].sample_rate>> =
                          AudioInfo(df_dict[i].audio_file)

C16_Witness ==
    /\ lpc = "done"
    /\ Len(df_dict) = 2
    /\ df_dict[1].audio_file \in corrupt
    /\ df_dict[1].audio_len = -1000
    /\ df_dict[2].audio_len > 0
    /\ lresult = <<"returned", None>>

\* whether the speaker of a path has no row in the speaker table
NoSpeakerRow(path) ==
    /\ IsInt(SpeakerSegment(path))
    /\ SpeakerMatches(speakers_df, ParseInt(SpeakerSegment(path))) = <<>>

\* C17: if the speaker of some matched sample has no row in the speaker
\* table, _preprocess ends with an error and no table and no card is
\* written; otherwise, once the join is over, every sample has the speaker
\* id of its path and the gender of the first row with that id.
C17_SpeakerJoin ==
    /\ (\E i \in DOMAIN samples : NoSpeakerRow(samples[i].audio_file)) =>
          /\ tables = NoTables
          /\ card = None
          /\ lpc = "done" => (lresult # <<>> /\ lresult[1] \in {"IndexError", "ValueError"})
    /\ (lpc \in {"snr", "write", "card_read"}) =>
          \A i \in DOMAIN samples :
              LET id == ParseInt(SpeakerSegment(samples[i].audio_file))
              IN /\ samples[i].speaker = id
                 /\ SpeakerMatches(speakers_df, id) # <<>>
                 /\ samples[i].gender = SpeakerMatches(speakers_df, id)[1].GENDER

C17_Witness ==
    /\ lpc = "done"
    /\ lresult = <<"IndexError">>
    /\ Len(samples) = 2
    /\ li = 2
    /\ ~NoSpeakerRow(samples[1].audio_file)
    /\ NoSpeakerRow(samples[2].audio_file)
    /\ tables = NoTables
    /\ card = None

\* the positions of the rows of table t with audio path p
RowsWith(t, p) == {i \in DOMAIN t : t[i].audio_file = p}

\* table t holds exactly the rows of full whose path contains name, in the
\* order of full
IsSplit(t, full, name) ==
    /\ \A i \in DOMAIN full :
          /\ contains(full[i].audio_file, name) =>
                \E j \in DOMAIN t : t[j] = full[i] /\ RowsWith(t, full[i].audio_file) = {j}
          /\ ~contains(full[i].audio_file, name) =>
                RowsWith(t, full[i].audio_file) = {}
    /\ \A j \in DOMAIN t : \E i \in DOMAIN full : full[i] = t[j]
    /\ \A j, k \in DOMAIN t :
          j < k => \E a, b \in DOMAIN full : a < b /\ full[a] = t[j] /\ full[b] = t[k]

\* C18: the full table holds every enriched sample exactly once, and the
\* table of each split holds exactly the samples whose audio path contains
\* the name of the split, in the order of the full table.
C18_Tables ==
    (tables # NoTables) =>
        /\ tables.metadata # None /\ tables.train # None
        /\ tables.test # None /\ tables.dev # None
        /\ Len(MetadataRows) = Len(samples)
        /\ \A i \in DOMAIN samples :
              /\ RowsWith(MetadataRows, samples[i].audio_file) = {i}
              /\ MetadataRows[i] = samples[i]
              /\ MetadataRows[i].snr = SnrOf(samples[i].audio_file)
        /\ IsSplit(tables.train[1], MetadataRows, TRAIN)
        /\ IsSplit(tables.test[1], MetadataRows, TEST)
        /\ IsSplit(tables.dev[1], MetadataRows, DEV)

C18_Witness ==
    /\ tables # NoTables
    /\ Len(MetadataRows) = 2
    /\ tables.train[1] = <<>>
    /\ Len(tables.test[1]) = 1
    /\ tables.dev[1] = tables.test[1]
    /\ MetadataRows[1] # tables.test[1][1]

\* C19: the card reports as sample count the number of rows of the metadata
\* table, and as corrupt count the number of rows whose audio file could not
\* be read, which are the rows with audio_len = -1.
C19_CardCounts ==
    (card # None) =>
        /\ card[1].num_samples = Len(MetadataRows)
        /\ card[1].num_corrupt_files =
              Cardinality({i \in DOMAIN MetadataRows : MetadataRows[i].audio_file \in corrupt})
        /\ card[1].num_corrupt_files =
              Cardinality({i \in DOMAIN df_dict : df_dict[i].audio_len = -1000})

C19_Witness ==
    /\ card # None
    /\ card[1].num_samples = 2
    /\ card[1].num_corrupt_files = 1
    /\ lresult = <<"returned", None>>

\* a card for rows that can all be read reports no corrupt file
C19_WitnessNone ==
    /\ card # None
    /\ card[1].num_samples = 2
    /\ card[1].num_corrupt_files = 0
    /\ corrupt # {}

\* C21: after match, enrich and export the written metadata table has one
\* row per matched sample, and its columns include audio_file, text, snr,
\* audio_len, sample_rate, speaker and gender.
C21_Original ==
    (lpc = "done" /\ lresult = <<"returned", None>>) =>
        /\ Len(MetadataRows) = Len(samples)
        /\ \A i \in DOMAIN MetadataRows :
              {"audio_file", "text", "snr", "audio_len", "sample_rate",
               "speaker", "gender"} \subseteq DOMAIN MetadataRows[i]

\* the failing case of C21: _preprocess has returned, the frame made by
\* get_audio_lengths has the two columns and the table on disk has not
C21_Reached ==
    /\ lpc = "done"
    /\ lresult = <<"returned", None>>
    /\ Len(MetadataRows) = 2
    /\ "audio_len" \in DOMAIN df_dict[1]
    /\ "audio_len" \notin DOMAIN MetadataRows[1]
    /\ "sample_rate" \notin DOMAIN MetadataRows[1]

\* the part of C21 the code keeps: one row per sample, with the five columns
\* that exist when line 181 writes the table
WrittenColumns ==
    (tables.metadata # None) =>
        /\ Len(MetadataRows) = Len(samples)
        /\ \A i \in DOMAIN MetadataRows :
              DOMAIN MetadataRows[i] = {"audio_file", "text", "speaker", "gender", "snr"}

(***************************************************************************)
(* Claims about match_textfiles_list.                                      *)
(***************************************************************************)
MatchDone == mpc = "done"

\* the audio paths of the entries returned
OutAudio == {matched_files[i].audio_file : i \in DOMAIN matched_files}

\* the last index of l whose path has base name b, 0 if there is none
LastWithBase(l, b) ==
    LET I == {i \in DOMAIN l : base_name(l[i]) = b}
    IN IF I = {} THEN 0 ELSE CHOOSE i \in I : \A j \in I : j <= i

\* C13: every entry returned by match_textfiles_list has a transcript that
\* is neither null nor empty, and its audio path is one of the inputs.
C13_Original ==
    MatchDone =>
        \A i \in DOMAIN matched_files :
            /\ matched_files[i].text # None
            /\ matched_files[i].text # Some(<<>>)
            /\ matched_files[i].audio_file \in Range(audio_files)

\* the failing case of C13: an entry with the empty string as transcript
C13_Reached ==
    /\ MatchDone
    /\ \E i \in DOMAIN matched_files :
          /\ matched_files[i].text = Some(<<>>)
          /\ \E t \in Range(text_files) :
                base_name(t) = base_name(matched_files[i].audio_file)

\* the part of C13 the code keeps
MatchedNotNull ==
    MatchDone =>
        \A i \in DOMAIN matched_files :
            /\ matched_files[i].text # None
            /\ matched_files[i].audio_file \in Range(audio_files)

\* C14: the output has at most one entry per base filename, and the audio
\* path of that entry is the last input audio path with that base filename.
C14_LastDuplicateWins ==
    MatchDone =>
        /\ \A i, j \in DOMAIN matched_files :
              base_name(matched_files[i].audio_file) =
                  base_name(matched_files[j].audio_file) => i = j
        /\ \A i \in DOMAIN matched_files :
              matched_files[i].audio_file =
                  audio_files[LastWithBase(audio_files,
                                           base_name(matched_files[i].audio_file))]

C14_Witness ==
    /\ MatchDone
    /\ Len(audio_files) = 2
    /\ audio_files[1] # audio_files[2]
    /\ splitext_root(audio_files[1]) = splitext_root(audio_files[2])
    /\ Len(matched_files) = 1
    /\ matched_files[1].audio_file = audio_files[2]

\* C15 as stated: an audio path is in the output iff some transcript path has
\* the same name-without-extension, and the text attached is the full content
\* of a transcript with that name-without-extension.
C15_Original ==
    MatchDone =>
        /\ \A p \in Range(audio_files) :
              p \in OutAudio <=>
                  \E t \in Range(text_files) : splitext_root(t) = splitext_root(p)
        /\ \A i \in DOMAIN matched_files :
              \E t \in Range(text_files) :
                  /\ splitext_root(t) = splitext_root(matched_files[i].audio_file)
                  /\ matched_files[i].text = Some(disk[t])

\* C15, amended: an audio path is in the output iff it is the last input
\* audio path with its base filename and some transcript path has the same
\* base filename, the base filename being the name up to its first dot; the
\* text attached is the content of the last such transcript without its
\* newline characters.
C15_MatchedByBaseName ==
    MatchDone =>
        /\ \A j \in DOMAIN audio_files :
              audio_files[j] \in OutAudio <=>
                  /\ LastWithBase(text_files, base_name(audio_files[j])) # 0
                  /\ audio_files[j] =
                        audio_files[LastWithBase(audio_files, base_name(audio_files[j]))]
        /\ \A i \in DOMAIN matched_files :
              LET t == LastWithBase(text_files, base_name(matched_files[i].audio_file))
              IN /\ t # 0
                 /\ matched_files[i].text = Some(RemoveNewlines(TextRead(disk[text_files[t]])))

C15_Witness ==
    /\ MatchDone
    /\ Len(audio_files) = 2
    /\ Len(matched_files) = 1
    /\ \A t \in Range(text_files) :
          splitext_root(t) # splitext_root(matched_files[1].audio_file)
    /\ matched_files[1].text = Some(<<"h", "o">>)
    /\ disk[text_files[LastWithBase(text_files, base_name(matched_files[1].audio_file))]]
          = <<"h", "\r", "\n", "o", "\r">>
    /\ \E p \in Range(audio_files) : p \notin OutAudio

(***************************************************************************)
(* Claims about batch acquisition.                                         *)
(***************************************************************************)
\* fetch 1, extract 1, ..., fetch n, extract n
RECURSIVE InOrder(_)
InOrder(n) ==
    IF n = 0 THEN <<>> ELSE InOrder(n - 1) \o <<<<"fetch", n>>, <<"extract", n>>>>

AllOk == \A i \in 1..Len(url_dict) : url_dict[i] = "ok"

\* C9: when a sequential batch call returns, every entry of the URL map has
\* been fetched and then extracted, in insertion order (no entry failing).
C9_Original ==
    (spc = "done" /\ AllOk) =>
        /\ sresult # <<>>
        /\ sresult[1] = "returned"
        /\ slog = InOrder(Len(url_dict))

\* the failing case of C9: a formatter's loop has returned after one entry
C9_Reached ==
    /\ variant = "formatter"
    /\ spc = "done"
    /\ AllOk
    /\ Len(url_dict) > 1
    /\ sresult = <<"returned", Root(1)>>
    /\ slog = InOrder(1)

\* the loops of os_dataset_downloaders do what C9 says
SeqAllEntries ==
    (variant = "os" /\ spc = "done" /\ AllOk) =>
        (sresult = <<"returned", None>> /\ slog = InOrder(Len(url_dict)))

ReturnsForEmptyMapOnly == apc = "returned" => url_dict = <<>>

\* C11: when the unit of some entry fails, async_download_urls still
\* eventually returns to its caller.
C11_Original ==
    (\E i \in Entries : task[i] = "failed") ~> (apc = "returned")

\* the failing case of C11: every unit has failed, the task handler has
\* nothing left, and the caller is in the loop of lines 254-256, which
\* nothing can end
C11_Reached ==
    /\ apc = "poll"
    /\ Len(url_dict) > 1
    /\ \A i \in Entries : task[i] = "failed"
    /\ Len(progress_list) < Len(url_dict)

\* what the code does instead: once a unit has failed the call never returns
FailedUnitBlocks ==
    [][(\E i \in Entries : task[i] = "failed") => apc' # "returned"]_vars

\* no unit gets as far as line 241: the list stays empty
NoUnitAppends == progress_list = <<>>

\* the entries i for which the log has a fetch followed by an extraction
Handled(i) ==
    \E a, b \in 1..Len(slog) :
        a < b /\ slog[a] = <<"fetch", i>> /\ slog[b] = <<"extract", i>>

\* C12: in a sequential batch, the failed fetch or extract of one entry
\* aborts that entry only: when the call is over every other entry of the
\* map has been fetched and extracted (loops of os_dataset_downloaders).
C12_Original ==
    (variant = "os" /\ spc = "done") =>
        \A i \in 1..Len(url_dict) : url_dict[i] = "ok" => Handled(i)

\* the failing case of C12: the first entry failed and the call is over
\* with the later entries never fetched
C12_Reached ==
    /\ variant = "os"
    /\ spc = "done"
    /\ Len(url_dict) > 1
    /\ url_dict[1] # "ok"
    /\ \A i \in 2..Len(url_dict) : url_dict[i] = "ok" /\ ~Handled(i)
    /\ sresult # <<>>
    /\ sresult[1] \in {"FetchError", "ExtractError"}

\* the part of C12 the code keeps: an entry is fetched at most once and
\* extracted at most once
NoRetry ==
    \A a, b \in 1..Len(slog) : (a # b) => slog[a] # slog[b]


(***************************************************************************)
(* Specifications.                                                         *)
(***************************************************************************)
\* the values of the parts a specification does not run
DlIdle ==
    /\ remote = <<>>
    /\ hasLength = FALSE
    /\ resume = FALSE
    /\ hash_value = None
    /\ hash_type = "sha256"
    /\ file = Absent
    /\ file0 = Absent
    /\ mode = None
    /\ local_size = None
    /\ dpc = "idle"
    /\ upointer = <<>>
    /\ requests = <<>>
    /\ writes = 0
    /\ dresult = ""

ExIdle ==
    /\ to_path_arg = None
    /\ overwrite = FALSE
    /\ tar = [open |-> FALSE, members |-> <<>>, truncated |-> FALSE, gzip |-> FALSE]
    /\ zip = None
    /\ fs = [n \in Names |-> NoObj]
    /\ fs0 = fs
    /\ epc = "idle"
    /\ idx = 0
    /\ files = <<>>
    /\ eresult = <<>>
    /\ tarWrites = 0
    /\ zipWrites = 0
    /\ run = 1
    /\ fs1 = fs
    /\ eresult1 = <<>>
    /\ link_target = [n \in Names |-> NoObj]
    /\ link_target1 = [n \in Names |-> NoObj]

SqIdle ==
    /\ variant = "os"
    /\ spc = "idle"
    /\ si = 1
    /\ slog = <<>>
    /\ sresult = <<>>

AsIdle ==
    /\ cpu_count = 1
    /\ apc = "idle"
    /\ ai = 1
    /\ task = <<>>
    /\ progress_list = <<>>

MtIdle ==
    /\ audio_files = <<>>
    /\ text_files = <<>>
    /\ disk = <<>>
    /\ files_map = <<>>
    /\ mpc = "idle"
    /\ mi = 1
    /\ matched_files = <<>>

LtIdleEnv ==
    /\ corrupt = {}
    /\ snr_raises = {}

LtIdleRun ==
    /\ samples = <<>>
    /\ speakers_df = <<>>
    /\ lpc = "idle"
    /\ li = 1
    /\ tables = NoTables
    /\ df_dict = <<>>
    /\ card = None
    /\ lresult = <<>>

LtIdle == LtIdleEnv /\ LtIdleRun

LjIdle ==
    /\ formatter = "LjSpeech"
    /\ book_csv = None
    /\ root_csv = None
    /\ jrows = <<>>
    /\ jpc = "idle"
    /\ jrun = 1
    /\ jcard = None
    /\ jresult = <<>>
    /\ jfirst = None

TsIdle ==
    /\ ts_in = 0
    /\ milliseconds = 0
    /\ hours = 0
    /\ minutes = 0
    /\ seconds = 0
    /\ tpc = "idle"
    /\ timestamp = <<>>

FeIdle ==
    /\ url = <<>>
    /\ out_path = <<>>
    /\ served_filename = None
    /\ payload = [kind |-> "other", names |-> <<>>]
    /\ folder = <<>>
    /\ unpacked = {}
    /\ fpc = "idle"
    /\ filepath = None
    /\ archive = None
    /\ call = 1
    /\ fresult = <<>>
    /\ fresult1 = <<>>

FmIdle ==
    /\ cls = "LibriTts"
    /\ path_arg = None
    /\ download = FALSE
    /\ selection = "all"
    /\ async_download = FALSE
    /\ user_home = <<>>
    /\ top_member = <<>>
    /\ self_path = None
    /\ extracted = {}
    /\ kpc = "idle"
    /\ preprocess_path = <<>>
    /\ kresult = <<>>

SrIdle ==
    /\ audio_samples = <<>>
    /\ walk = <<>>
    /\ text_file_extension = <<>>
    /\ read_text_file = FALSE
    /\ si_sample = 1
    /\ walk_idx = 1
    /\ matched_samples = <<>>
    /\ rpc = "idle"
    /\ returned_samples = {}

TdIdle ==
    /\ text_pairs = <<>>
    /\ ted_snr_raises = {}
    /\ snr_idx = 1
    /\ all_samples = <<>>
    /\ collect_idx = 1
    /\ total_samples = <<>>
    /\ metadata_csv = None
    /\ ted_pc = "idle"
    /\ ted_result = <<>>

InitDownload == DlInit /\ ExIdle /\ url_dict = <<>> /\ SqIdle /\ AsIdle /\ MtIdle /\ LtIdle /\ LjIdle /\ TsIdle /\ FeIdle /\ FmIdle /\ SrIdle /\ TdIdle

SpecDownload == InitDownload /\ [][DlNext]_vars

InitExtract == ExInit /\ DlIdle /\ url_dict = <<>> /\ SqIdle /\ AsIdle /\ MtIdle /\ LtIdle /\ LjIdle /\ TsIdle /\ FeIdle /\ FmIdle /\ SrIdle /\ TdIdle

SpecExtract == InitExtract /\ [][ExNext]_vars

InitSequential == SqInit /\ DlIdle /\ ExIdle /\ AsIdle /\ MtIdle /\ LtIdle /\ LjIdle /\ TsIdle /\ FeIdle /\ FmIdle /\ SrIdle /\ TdIdle

SpecSequential == InitSequential /\ [][SqNext]_vars

InitAsync == AsInit /\ DlIdle /\ ExIdle /\ SqIdle /\ MtIdle /\ LtIdle /\ LjIdle /\ TsIdle /\ FeIdle /\ FmIdle /\ SrIdle /\ TdIdle

SpecAsync == InitAsync /\ [][AsNext]_vars

\* every process that can take a step takes one: the pool's threads, the
\* workers and the caller all run
SpecAsyncFair == SpecAsync /\ WF_vars(AsNext)

(***************************************************************************)
(* Claims about download_url, checked under SpecDownload.                  *)
(***************************************************************************)
Done == dpc = "done"

\* the digest of data under hash_type is defined and equals hash_value
ChecksumMatches(data) ==
    /\ ~IsNone(hash_value)
    /\ ~ValidateRaises(hash_type)
    /\ hexdigest(hash_type, data) = hash_value[1]

ChecksumDiffers(data) ==
    /\ ~IsNone(hash_value)
    /\ ~ValidateRaises(hash_type)
    /\ hexdigest(hash_type, data) # hash_value[1]

\* C1: download_url called with resume=False on an existing target file
\* fails with the 'already exists' error; up to and including the failure no
\* body request is issued, nothing is written and the file is as it was.
C1_AlreadyExists ==
    (~resume /\ file0.exists) =>
        /\ file = file0
        /\ requests = <<>>
        /\ writes = 0
        /\ dpc \in {"head", "detect", "done"}
        /\ Done => dresult = "AlreadyExists"

C1_Witness ==
    /\ ~resume
    /\ file0.exists
    /\ file0.data # <<>>
    /\ remote # file0.data
    /\ Done
    /\ dresult = "AlreadyExists"

\* C2 as stated: a local file of exactly the remote size whose checksum
\* matches makes download_url return normally, with no body request and the
\* file unmodified, whatever the resume flag is.
C2_Original ==
    (/\ file0.exists
     /\ Len(file0.data) = ContentLength
     /\ ChecksumMatches(file0.data)) =>
        /\ file = file0
        /\ requests = <<>>
        /\ Done => dresult = "returned"

\* C2 amended: the same, with resume=True; with resume=False the call fails
\* with the 'already exists' error (still no body request, file unmodified).
C2_CompleteFile ==
    (/\ file0.exists
     /\ Len(file0.data) = ContentLength
     /\ ChecksumMatches(file0.data)) =>
        /\ file = file0
        /\ requests = <<>>
        /\ writes = 0
        /\ Done => dresult = (IF resume THEN "returned" ELSE "AlreadyExists")

C2_Witness ==
    /\ resume
    /\ file0.exists
    /\ file0.data # <<>>
    /\ Len(file0.data) = ContentLength
    /\ ChecksumMatches(file0.data)
    /\ Done
    /\ dresult = "returned"
    /\ requests = <<>>

\* C3: with resume=True and a local file of n bytes, 0 <= n <= remote size,
\* the only body request download_url makes asks for the bytes from offset n
\* on (no Range header is the same request when n = 0), the file always is
\* the old n bytes followed by a prefix of remote[n..], and when download_url
\* returns it is the old n bytes followed by all of remote[n..].  Without a
\* checksum and with a Content-Length header it does return.
RequestsFrom(n) ==
    \/ requests = <<>>
    \/ requests = <<Some(n)>>
    \/ n = 0 /\ requests = <<None>>

IsPrefix(s, t) == Len(s) <= Len(t) /\ s = SubSeq(t, 1, Len(s))

C3_ResumeAppends ==
    (resume /\ file0.exists /\ Len(file0.data) <= Len(remote)) =>
        LET n == Len(file0.data) IN
        /\ RequestsFrom(n)
        /\ file.exists
        /\ IsPrefix(file.data, file0.data \o Body(n))
        /\ IsPrefix(file0.data, file.data)
        /\ dresult = "returned" => file.data = file0.data \o Body(n)
        /\ (Done /\ IsNone(hash_value) /\ hasLength) => dresult = "returned"

C3_Witness ==
    /\ resume
    /\ file0.exists
    /\ Len(file0.data) > 0
    /\ Len(file0.data) < Len(remote)
    /\ requests = <<Some(Len(file0.data))>>
    /\ writes > 0
    /\ dresult = "returned"
    /\ file.data # remote

\* C4: the step after the download (line 126): with a checksum supplied, a
\* file whose digest differs makes download_url fail with the hash-mismatch
\* error and the file stays on disk with the bytes it had; a file whose
\* digest matches makes it return normally.
C4_VerifyStep ==
    [][(dpc = "verify" /\ ~IsNone(hash_value) /\ ~ValidateRaises(hash_type)) =>
          /\ file' = file
          /\ file.exists
          /\ dpc' = "done"
          /\ ChecksumDiffers(file.data) => dresult' = "HashMismatch"
          /\ ChecksumMatches(file.data) => dresult' = "returned"]_vars

C4_Witness ==
    /\ Done
    /\ dresult = "HashMismatch"
    /\ writes > 0
    /\ file.exists
    /\ file.data = remote
    /\ ChecksumDiffers(file.data)


InitMatch == MtInit /\ DlIdle /\ ExIdle /\ url_dict = <<>> /\ SqIdle /\ AsIdle /\ LtIdle /\ LjIdle /\ TsIdle /\ FeIdle /\ FmIdle /\ SrIdle /\ TdIdle

SpecMatch == InitMatch /\ [][MtNext]_vars
InitLibriTts == LtInit /\ DlIdle /\ ExIdle /\ url_dict = <<>> /\ SqIdle /\ AsIdle /\ MtIdle /\ LjIdle /\ TsIdle /\ FeIdle /\ FmIdle /\ SrIdle /\ TdIdle

SpecLibriTts == InitLibriTts /\ [][LtNext]_vars
InitRerun == LjInit /\ LtIdleRun /\ DlIdle /\ ExIdle /\ url_dict = <<>> /\ SqIdle /\ AsIdle /\ MtIdle /\ TsIdle /\ FeIdle /\ FmIdle /\ SrIdle /\ TdIdle

SpecRerun == InitRerun /\ [][LjNext]_vars

InitTimestamp == TsInit /\ DlIdle /\ ExIdle /\ url_dict = <<>> /\ SqIdle /\ AsIdle /\ MtIdle /\ LtIdle /\ LjIdle /\ FeIdle /\ FmIdle /\ SrIdle /\ TdIdle

SpecTimestamp == InitTimestamp /\ [][TsNext]_vars

InitFetch == FeInit /\ DlIdle /\ ExIdle /\ url_dict = <<>> /\ SqIdle /\ AsIdle /\ MtIdle /\ LtIdle /\ LjIdle /\ TsIdle /\ FmIdle /\ SrIdle /\ TdIdle

SpecFetch == InitFetch /\ [][FeNext]_vars

InitFormatter == FmInit /\ DlIdle /\ ExIdle /\ url_dict = <<>> /\ SqIdle /\ AsIdle /\ MtIdle /\ LtIdle /\ LjIdle /\ TsIdle /\ FeIdle /\ SrIdle /\ TdIdle

SpecFormatter == InitFormatter /\ [][FmNext]_vars

InitSearch == SrInit /\ DlIdle /\ ExIdle /\ url_dict = <<>> /\ SqIdle /\ AsIdle /\ MtIdle /\ LtIdle /\ LjIdle /\ TsIdle /\ FeIdle /\ FmIdle /\ TdIdle

SpecSearch == InitSearch /\ [][SrNext]_vars

InitTedlium == TdInit /\ DlIdle /\ ExIdle /\ url_dict = <<>> /\ SqIdle /\ AsIdle /\ MtIdle /\ LtIdle /\ LjIdle /\ TsIdle /\ FeIdle /\ FmIdle /\ SrIdle

SpecTedlium == InitTedlium /\ [][TdNext]_vars
====
